---------------------------- MODULE Spec2Model ----------------------------
(***************************************************************************)
(* Model of the Mariage wedding-planning API (Express routes over one      *)
(* PostgreSQL pool).  Every route handler is a sequence of awaited         *)
(* db.query calls; a request's position between two awaits is its pc, and  *)
(* requests interleave at the awaits.  db.query hands each statement to    *)
(* pool.query, which runs it on whichever pooled client is free, so a      *)
(* statement is two steps: Acquire (a client is taken) and the handler     *)
(* step (the statement runs on that client and the client is released).    *)
(***************************************************************************)
EXTENDS Integers, Sequences, FiniteSets, TLC

(***************************************************************************)
(* Bounds of the model.                                                    *)
(***************************************************************************)
MaxUsers == 3          \* registered accounts 1..MaxUsers
MaxWeddings == 3       \* wedding ids a request may name or the sequence may issue
MaxTokens == 2         \* random tokens drawn in one behaviour
MaxInvitations == 2    \* invitation ids the sequence may issue
MaxReq == 2            \* requests in flight at the same time
MaxStarts == 2         \* requests started in one behaviour
MaxFaults == 1         \* statements failed by the storage in one behaviour
MaxItems == 2          \* guests, vendors and budget items ever created, each
MaxValue == 2          \* largest final_value of a seeded budget item

UserIds == 1..MaxUsers
WeddingIds == 1..MaxWeddings
TokenIds == 1..MaxTokens
InvitationIds == 1..MaxInvitations
ItemIds == 1..MaxItems
Req == 1..MaxReq
ConnIds == 1..MaxReq   \* a request holds at most one client at a time

AllEmails == <<"ana@x", "bia@x", "caio@x", "duda@x", "eva@x">>
EmailOf(u) == AllEmails[u]
Emails == {EmailOf(u) : u \in UserIds}

PermissionInputs == {"view", "edit", "admin"}   \* req.body.permissionLevel
NULL == "null"

VARIABLES
  db,      \* committed rows of every table (a set of records tagged by t)
  conns,   \* pooled clients: open transaction and its uncommitted writes
  idle,    \* the pool's idle clients, last released last
  req,     \* the requests in flight: handler, position, arguments, locals
  seq,     \* database sequences and the source of random tokens
  budget,  \* requests started and storage faults injected so far
  hist     \* history, per invitation token: the 200 answers of acceptInvitation,
           \* the users whose membership row an acceptInvitation inserted, and
           \* whether a request begun after a 200 answer has been answered 404;
           \* the handlers whose write the slug constraint has refused; and the
           \* handlers a guard has answered 403, each with the levels of the
           \* caller's membership rows on the wedding that owns the target; and
           \* the invitation tokens an invite has overwritten; and the tokens
           \* whose invitation email was not dispatched; and the refresh tokens
           \* that were logged out or were stored when a login issued another

vars == <<db, conns, idle, req, seq, budget, hist>>

(***************************************************************************)
(* The store: tables, the connection pool and transactions.                *)
(***************************************************************************)
Table(S, t) == {x \in S : x.t = t}

NoConn == [open |-> FALSE, tx |-> FALSE, aborted |-> FALSE, ins |-> {}, del |-> {}]

\* What a statement running on client c reads: committed rows, and inside an
\* open transaction that transaction's own uncommitted writes.
View(c) ==
  IF conns[c].tx THEN (db \ conns[c].del) \cup conns[c].ins ELSE db

\* A statement on a client whose transaction has failed is refused until ROLLBACK.
Broken(c) == conns[c].tx /\ conns[c].aborted

\* Row locks: rows D are being changed by another client's open transaction.
Blocked(c, D) ==
  \E d \in ConnIds \ {c} :
    conns[d].tx /\ ~conns[d].aborted /\ D \cap conns[d].del # {}

\* The committed rows after client c deletes rows D and inserts rows I.
WriteDb(c, D, I) ==
  IF conns[c].tx THEN db ELSE (db \ D) \cup I

\* The clients after client c deletes rows D and inserts rows I.
WriteConns(c, D, I) ==
  IF conns[c].tx
    THEN [conns EXCEPT ![c].del = @ \cup (D \cap db),
                       ![c].ins = (@ \ D) \cup I]
    ELSE conns

IdleReq == [op |-> "none", pc |-> "idle", conn |-> 0, user |-> 0,
            a |-> <<>>, l |-> <<>>, resp |-> 0]

Running(r, op, pc) == req[r].op = op /\ req[r].pc = pc /\ req[r].conn # 0

\* pool.query: take the most recently released idle client, else connect a new one.
Acquire(r) ==
  /\ req[r].pc \notin {"idle", "done", "sendEmail"}   \* not waiting for a statement
  /\ req[r].conn = 0
  /\ IF idle # <<>>
       THEN /\ req' = [req EXCEPT ![r].conn = idle[Len(idle)]]
            /\ idle' = SubSeq(idle, 1, Len(idle) - 1)
            /\ UNCHANGED conns
       ELSE /\ \E c \in ConnIds :
                 /\ ~conns[c].open
                 /\ \A d \in ConnIds : d < c => conns[d].open
                 /\ conns' = [conns EXCEPT ![c].open = TRUE]
                 /\ req' = [req EXCEPT ![r].conn = c]
            /\ UNCHANGED idle
  /\ UNCHANGED <<db, seq, budget, hist>>

\* The statement of request r has run: its client goes back to the pool with
\* state cs, the committed rows become d.
Ran(r, d, cs) ==
  /\ db' = d
  /\ conns' = cs
  /\ idle' = Append(idle, req[r].conn)

Goto(r, pc, l) ==
  req' = [req EXCEPT ![r].pc = pc, ![r].conn = 0, ![r].l = l]

\* res.status(code): the request ends; its slot keeps the handler and the status.
Reply(r, code) ==
  req' = [req EXCEPT ![r] = [IdleReq EXCEPT !.op = req[r].op, !.pc = "done",
                                            !.resp = code]]

\* A new request takes the first slot that is free or whose response has been sent.
Free(r) ==
  /\ req[r].pc \in {"idle", "done"}
  /\ \A s \in Req : s < r => req[s].pc \notin {"idle", "done"}
  /\ budget.started < MaxStarts

Begin(r, op, pc, user, a, l) ==
  /\ req' = [req EXCEPT ![r] = [op |-> op, pc |-> pc, conn |-> 0, user |-> user,
                                a |-> a, l |-> l, resp |-> 0]]
  /\ budget' = [budget EXCEPT !.started = @ + 1]
  /\ UNCHANGED <<db, conns, idle, seq, hist>>

\* Requests of handler op that have not been answered yet.
InFlight(op) == Cardinality({s \in Req : req[s].op = op /\ req[s].pc # "done"})

\* The first statement of a route; for a guarded write it is its guard's query:
\*   team.js      PATCH /member (canEditWedding), DELETE /invitation/:invitationId
\*   weddings     PUT /:weddingId, PUT /:weddingId/site (canEditWedding)
\*   guests.js    POST /wedding/:weddingId (canEditWedding), PUT, DELETE /:guestId
\*   vendors.js   POST /wedding/:weddingId (canEditByWeddingId),
\*                PUT, DELETE /:vendorId (canEditWeddingByVendor)
\*   budget.js    POST /wedding/:weddingId (canEditByWeddingId),
\*                PATCH /:itemId/status, PUT, DELETE /:itemId (canEditByItemId)
\*   auth.js      POST /login, POST /verify-email
\*   public       POST /rsvp/:token
FirstPc(op) ==
  CASE op \in {"patchMember", "updateWedding", "saveSiteDetails", "addGuest"} ->
         "canEditWedding"
    [] op \in {"revokeInvitation", "updateGuest", "deleteGuest"} -> "permission"
    [] op \in {"addVendor", "addBudgetItem"} -> "canEditByWeddingId"
    [] op \in {"updateVendor", "deleteVendor"} -> "canEditWeddingByVendor"
    [] op \in {"patchItemStatus", "updateBudgetItem", "deleteBudgetItem"} ->
         "canEditByItemId"
    [] op \in {"login", "verifyEmail"} -> "selectUser"
    [] op = "submitRsvp" -> "update"
    [] op = "getRsvp" -> "select"
    [] op = "refreshToken" -> "selectToken"
    [] op = "logout" -> "deleteToken"
    [] op = "register" -> "userExists"
    [] op = "listBudgetItems" -> "canAccessWedding"

\* A request arrives: authMiddleware has set req.user (0 on a public route),
\* a holds req.params and req.body. An insert draws its id from a sequence.
Request(r, op, user, a) ==
  /\ Free(r)
  /\ op = "addGuest" => seq.guest + InFlight(op) < MaxItems
  /\ op = "addVendor" => seq.vendor + InFlight(op) < MaxItems
  /\ op = "addBudgetItem" => seq.item + InFlight(op) < MaxItems
  /\ Begin(r, op, FirstPc(op), user, a, <<>>)

\* BEGIN on client c; inside a transaction it only warns.
BeginTx(c) == [conns EXCEPT ![c].tx = TRUE]

\* COMMIT on client c: the transaction's writes become committed rows; a failed
\* transaction is rolled back instead, and without a transaction nothing happens.
CommitDb(c) ==
  IF conns[c].tx /\ ~conns[c].aborted
    THEN (db \ conns[c].del) \cup conns[c].ins
    ELSE db

\* The clients after COMMIT or ROLLBACK on client c.
EndTx(c) == [conns EXCEPT ![c] = [NoConn EXCEPT !.open = TRUE]]

\* The clients after a statement on client c has failed.
FailTx(c) ==
  IF conns[c].tx THEN [conns EXCEPT ![c].aborted = TRUE] ELSE conns

(***************************************************************************)
(* routes/team.js                                                          *)
(***************************************************************************)
Members(V) == Table(V, "wedding_users")
Invitations(V) == Table(V, "wedding_invitations")
Users(V) == Table(V, "users")
Weddings(V) == Table(V, "weddings")

\* canAccessWedding: SELECT 1 FROM wedding_users WHERE user_id AND wedding_id
TeamCanAccessWedding(V, userId, weddingId) ==
  \E wu \in Members(V) : wu.user_id = userId /\ wu.wedding_id = weddingId

\* The query of canEditWedding without its permission_level condition.
TeamCanEditWedding_AnyLevel(V, userId, weddingId) ==
  \E wu \in Members(V) :
    /\ wu.user_id = userId
    /\ wu.wedding_id = weddingId
    /\ \E w \in Weddings(V) : w.wedding_id = wu.wedding_id

\* canEditWedding: wedding_users JOIN weddings ... AND permission_level = 'edit'
TeamCanEditWedding(V, userId, weddingId) ==
  \E wu \in Members(V) :
    /\ wu.user_id = userId
    /\ wu.wedding_id = weddingId
    /\ wu.permission_level = "edit"
    /\ \E w \in Weddings(V) : w.wedding_id = wu.wedding_id


Guests(V) == Table(V, "guests")
Vendors(V) == Table(V, "vendors")
BudgetItems(V) == Table(V, "budget_items")

\* The handlers that name the wedding they write to, and those that name a row.
WeddingScoped == {"invite", "patchMember", "updateWedding", "saveSiteDetails",
                  "addGuest", "addVendor", "addBudgetItem"}
GuestScoped == {"updateGuest", "deleteGuest"}
VendorScoped == {"updateVendor", "deleteVendor"}
ItemScoped == {"patchItemStatus", "updateBudgetItem", "deleteBudgetItem"}

\* The weddings that own the target of request r: the wedding named by the
\* request, or the wedding_id stored on the row it names (none if no such row).
OwningWedding(V, r) ==
  LET a == req[r].a
  IN  CASE req[r].op \in WeddingScoped -> {a.weddingId}
        [] req[r].op \in GuestScoped ->
             {g.wedding_id : g \in {x \in Guests(V) : x.guest_id = a.guestId}}
        [] req[r].op \in VendorScoped ->
             {v.wedding_id : v \in {x \in Vendors(V) : x.vendor_id = a.vendorId}}
        [] req[r].op \in ItemScoped ->
             {b.wedding_id : b \in {x \in BudgetItems(V) : x.item_id = a.itemId}}
        [] req[r].op = "revokeInvitation" ->
             {i.wedding_id : i \in {x \in Invitations(V) : x.invitation_id = a.invitationId}}
        [] OTHER -> {}

\* The permission levels of the membership rows of userId on the weddings W.
LevelsOf(V, userId, W) ==
  {wu.permission_level : wu \in {x \in Members(V) : x.user_id = userId /\ x.wedding_id \in W}}

\* return res.status(403) of a guard.
Deny(r) ==
  /\ Reply(r, 403)
  /\ hist' = [hist EXCEPT !.forbidden =
                 @ \cup {<<req[r].op, LevelsOf(db, req[r].user, OwningWedding(db, r))>>}]

\* The catch block of the handler of request r: createWedding and deleteAccount
\* issue ROLLBACK first, refresh-token answers 403, every other handler 500.
Throw(r) ==
  IF req[r].op \in {"createWedding", "deleteAccount"}
    THEN Goto(r, "rollback", req[r].l)
    ELSE Reply(r, IF req[r].op = "refreshToken" THEN 403 ELSE 500)

\* The statement of request r is refused by a failed transaction.
Refused(r) ==
  /\ Throw(r)
  /\ Ran(r, db, conns)
  /\ UNCHANGED <<seq, budget, hist>>

\* The rows other clients' open transactions have inserted and not yet committed;
\* an insert of the same unique key waits for them.
Uncommitted(c) ==
  UNION {conns[d].ins : d \in {e \in ConnIds \ {c} : conns[e].tx /\ ~conns[e].aborted}}

\* POST /invite
Invite(r, user, weddingId, email, permissionLevel) ==
  /\ Free(r)
  /\ LET inFlight == {s \in Req : req[s].op = "invite" /\ req[s].pc \notin {"done", "sendEmail"}}
     IN  /\ seq.token + Cardinality(inFlight) < MaxTokens
         /\ seq.invitation + Cardinality(inFlight) < MaxInvitations
  /\ Begin(r, "invite", "canEditWedding", user,
           [weddingId |-> weddingId, email |-> email,
            permissionLevel |-> permissionLevel, relationship |-> "Padrinho"],
           [token |-> NULL])

\* The canEditWedding middleware in front of POST /invite and PATCH /member;
\* PATCH /member validates the level as soon as the middleware lets it through.
Team_canEditWedding(r) ==
  /\ req[r].op \in {"invite", "patchMember"}
  /\ req[r].pc = "canEditWedding"
  /\ req[r].conn # 0
  /\ IF Broken(req[r].conn) THEN Refused(r)
     ELSE /\ IF ~TeamCanEditWedding(View(req[r].conn), req[r].user, req[r].a.weddingId)
               THEN Deny(r)
               ELSE /\ IF req[r].op = "invite"
                          THEN Goto(r, "existingMember", req[r].l)
                          ELSE IF req[r].a.permissionLevel \notin {"view", "edit"}
                                 THEN Reply(r, 400)
                                 ELSE Goto(r, "update", req[r].l)
                    /\ UNCHANGED hist
          /\ Ran(r, db, conns)
          /\ UNCHANGED <<seq, budget>>

\* An existence check that finds no row.
ExistingMember_Never(V, weddingId, email) == FALSE

\* SELECT 1 FROM wedding_users wu JOIN users u ... WHERE wedding_id, email
ExistingMember(V, weddingId, email) ==
  \E wu \in Members(V) : \E u \in Users(V) :
    wu.user_id = u.user_id /\ wu.wedding_id = weddingId /\ u.email = email

Invite_existingMember(r) ==
  /\ Running(r, "invite", "existingMember")
  /\ IF Broken(req[r].conn) THEN Refused(r)
     ELSE /\ IF ExistingMember(View(req[r].conn), req[r].a.weddingId, req[r].a.email)
               THEN Reply(r, 409) /\ UNCHANGED seq
               ELSE /\ Goto(r, "upsert", [token |-> seq.token + 1])
                    /\ seq' = [seq EXCEPT !.token = @ + 1]
          /\ Ran(r, db, conns)
          /\ UNCHANGED <<budget, hist>>

\* The upsert without invitation_token = EXCLUDED.invitation_token.
UpsertInvitation_KeepToken(old, id, a, token) ==
  [t |-> "wedding_invitations",
   invitation_id |-> IF old = {} THEN id ELSE (CHOOSE i \in old : TRUE).invitation_id,
   wedding_id |-> a.weddingId, email |-> a.email,
   permission_level |-> a.permissionLevel,
   invitation_token |-> IF old = {} THEN token ELSE (CHOOSE i \in old : TRUE).invitation_token,
   relationship |-> a.relationship, status |-> "pending"]

\* INSERT INTO wedding_invitations ... ON CONFLICT (wedding_id, email) DO UPDATE
UpsertInvitation(old, id, a, token) ==
  [t |-> "wedding_invitations",
   invitation_id |-> IF old = {} THEN id ELSE (CHOOSE i \in old : TRUE).invitation_id,
   wedding_id |-> a.weddingId, email |-> a.email,
   permission_level |-> a.permissionLevel, invitation_token |-> token,
   relationship |-> a.relationship, status |-> "pending"]

Invite_upsert(r) ==
  /\ Running(r, "invite", "upsert")
  /\ LET c == req[r].conn
         a == req[r].a
         old == {i \in Invitations(View(c)) :
                   i.wedding_id = a.weddingId /\ i.email = a.email}
         new == UpsertInvitation(old, seq.invitation + 1, a, req[r].l.token)
         SameKey(x) == /\ x.t = "wedding_invitations"
                       /\ x.wedding_id = a.weddingId /\ x.email = a.email
     IN  IF Broken(c) THEN Refused(r)
         ELSE /\ ~Blocked(c, old)
              /\ \A x \in Uncommitted(c) : ~SameKey(x)
              /\ Ran(r, WriteDb(c, old, {new}), WriteConns(c, old, {new}))
              /\ seq' = [seq EXCEPT !.invitation = IF old = {} THEN @ + 1 ELSE @]
              /\ Goto(r, "sendEmail", req[r].l)
              /\ hist' = [hist EXCEPT !.superseded =
                             @ \cup ({i.invitation_token : i \in old} \ {new.invitation_token})]
              /\ UNCHANGED budget

\* A handler that ignores the failure of the dispatch.
InviteResponse_Swallowed(sent) == 200

\* res.status(200) after the dispatch, res.status(500) in the catch block.
InviteResponse(sent) == IF sent THEN 200 ELSE 500

\* await sendTeamInvitationEmail(...): the dispatch succeeds or throws.
Invite_sendTeamInvitationEmail(r) ==
  /\ req[r].op = "invite" /\ req[r].pc = "sendEmail"
  /\ \E sent \in BOOLEAN :
       /\ Reply(r, InviteResponse(sent))
       /\ hist' = [hist EXCEPT !.undelivered =
                      IF sent THEN @ ELSE @ \cup {req[r].l.token}]
  /\ UNCHANGED <<db, conns, idle, seq, budget>>

\* The UPDATE as an upsert: a pair without a row gets one.
UpdateMemberPermission_Upsert(old, a) ==
  IF old = {}
    THEN {[t |-> "wedding_users", user_id |-> a.memberUserId, wedding_id |-> a.weddingId,
           permission_level |-> a.permissionLevel, relationship |-> NULL]}
    ELSE {[wu EXCEPT !.permission_level = a.permissionLevel] : wu \in old}

\* UPDATE wedding_users SET permission_level = $1 WHERE wedding_id = $2 AND user_id = $3:
\* the rows old it matches, as it leaves them.
UpdateMemberPermission(old, a) ==
  {[wu EXCEPT !.permission_level = a.permissionLevel] : wu \in old}

PatchMember_update(r) ==
  /\ Running(r, "patchMember", "update")
  /\ LET c == req[r].conn
         a == req[r].a
         old == {wu \in Members(View(c)) :
                   wu.wedding_id = a.weddingId /\ wu.user_id = a.memberUserId}
         new == UpdateMemberPermission(old, a)
     IN  IF Broken(c) THEN Refused(r)
         ELSE /\ ~Blocked(c, old)
              /\ Ran(r, WriteDb(c, old, new), WriteConns(c, old, new))
              /\ Reply(r, 200)
              /\ UNCHANGED <<seq, budget, hist>>

\* POST /accept-invitation
AcceptInvitation(r, user, token) ==
  /\ Free(r)
  /\ Begin(r, "acceptInvitation", "select", user, [token |-> token],
           [invitation |-> NULL, late |-> hist.accepted[token] > 0])

\* SELECT * FROM wedding_invitations WHERE invitation_token = $1 AND status = 'pending'
PendingInvitation(V, token) ==
  {i \in Invitations(V) : i.invitation_token = token /\ i.status = "pending"}

AcceptInvitation_select(r) ==
  /\ Running(r, "acceptInvitation", "select")
  /\ IF Broken(req[r].conn) THEN Refused(r)
     ELSE /\ LET found == PendingInvitation(View(req[r].conn), req[r].a.token)
             IN  IF found = {}
                   THEN /\ Reply(r, 404)
                        /\ hist' = IF req[r].l.late
                                     THEN [hist EXCEPT !.refused[req[r].a.token] = TRUE]
                                     ELSE hist
                   ELSE /\ Goto(r, "insert",
                                [req[r].l EXCEPT !.invitation = CHOOSE i \in found : TRUE])
                        /\ UNCHANGED hist
          /\ Ran(r, db, conns)
          /\ UNCHANGED <<seq, budget>>

\* INSERT INTO wedding_users ... ON CONFLICT DO NOTHING
\* The key of wedding_users that ON CONFLICT refers to.
MemberKey(x) == <<x.user_id, x.wedding_id>>

InsertMember(V, userId, invitation) ==
  IF \E wu \in Members(V) : MemberKey(wu) = <<userId, invitation.wedding_id>>
    THEN {}
    ELSE {[t |-> "wedding_users", user_id |-> userId,
           wedding_id |-> invitation.wedding_id,
           permission_level |-> invitation.permission_level,
           relationship |-> invitation.relationship]}

AcceptInvitation_insert(r) ==
  /\ Running(r, "acceptInvitation", "insert")
  /\ LET c == req[r].conn
         inv == req[r].l.invitation
         new == InsertMember(View(c), req[r].user, inv)
         SameKey(x) == /\ x.t = "wedding_users"
                       /\ MemberKey(x) = <<req[r].user, inv.wedding_id>>
     IN  IF Broken(c) THEN Refused(r)
         ELSE /\ \A x \in Uncommitted(c) : ~SameKey(x)
              /\ Ran(r, WriteDb(c, {}, new), WriteConns(c, {}, new))
              /\ Goto(r, "update", req[r].l)
              /\ hist' = IF new = {} THEN hist
                         ELSE [hist EXCEPT !.joined[req[r].a.token] = @ \cup {req[r].user}]
              /\ UNCHANGED <<seq, budget>>

\* The UPDATE that marks the invitation accepted, matching no row.
MarkAccepted_NoRow(V, invitation) == {}

\* UPDATE wedding_invitations SET status = 'accepted' WHERE invitation_id = $1
MarkAccepted(V, invitation) ==
  {i \in Invitations(V) : i.invitation_id = invitation.invitation_id}

AcceptInvitation_update(r) ==
  /\ Running(r, "acceptInvitation", "update")
  /\ LET c == req[r].conn
         old == MarkAccepted(View(c), req[r].l.invitation)
         new == {[i EXCEPT !.status = "accepted"] : i \in old}
     IN  IF Broken(c) THEN Refused(r)
         ELSE /\ ~Blocked(c, old)
              /\ Ran(r, WriteDb(c, old, new), WriteConns(c, old, new))
              /\ Reply(r, 200)
              /\ hist' = [hist EXCEPT !.accepted[req[r].a.token] = @ + 1]
              /\ UNCHANGED <<seq, budget>>

\* The join without AND wu.permission_level = 'edit'.
CanRevokeInvitation_AnyLevel(V, userId, invitationId) ==
  \E wi \in Invitations(V) : \E wu \in Members(V) :
    /\ wi.invitation_id = invitationId
    /\ wi.wedding_id = wu.wedding_id
    /\ wu.user_id = userId

\* wedding_invitations JOIN wedding_users ... AND wu.permission_level = 'edit'
CanRevokeInvitation(V, userId, invitationId) ==
  \E wi \in Invitations(V) : \E wu \in Members(V) :
    /\ wi.invitation_id = invitationId
    /\ wi.wedding_id = wu.wedding_id
    /\ wu.user_id = userId
    /\ wu.permission_level = "edit"

RevokeInvitation_permission(r) ==
  /\ Running(r, "revokeInvitation", "permission")
  /\ IF Broken(req[r].conn) THEN Refused(r)
     ELSE /\ IF ~CanRevokeInvitation(View(req[r].conn), req[r].user, req[r].a.invitationId)
               THEN Deny(r)
               ELSE Goto(r, "delete", req[r].l) /\ UNCHANGED hist
          /\ Ran(r, db, conns)
          /\ UNCHANGED <<seq, budget>>

RevokeInvitation_delete(r) ==
  /\ Running(r, "revokeInvitation", "delete")
  /\ LET c == req[r].conn
         old == {i \in Invitations(View(c)) : i.invitation_id = req[r].a.invitationId}
     IN  IF Broken(c) THEN Refused(r)
         ELSE /\ ~Blocked(c, old)
              /\ Ran(r, WriteDb(c, old, {}), WriteConns(c, old, {}))
              /\ Reply(r, 204)
              /\ UNCHANGED <<seq, budget, hist>>

(***************************************************************************)
(* Initial states and specifications.                                      *)
(***************************************************************************)
NoHist == [accepted |-> [k \in TokenIds |-> 0], joined |-> [k \in TokenIds |-> {}],
           refused |-> [k \in TokenIds |-> FALSE], conflict |-> {}, forbidden |-> {},
           superseded |-> {}, undelivered |-> {}, revoked |-> {}]

NoSeq == [token |-> 0, invitation |-> 0, wedding |-> 0, reset |-> 0,
          guest |-> 0, vendor |-> 0, item |-> 0, session |-> 0, user |-> 0]

UserRow(u) ==
  [t |-> "users", user_id |-> u, email |-> EmailOf(u), is_verified |-> TRUE,
   verification_token |-> NULL]

WeddingRow(w, owner, slug) ==
  [t |-> "weddings", wedding_id |-> w, owner_id |-> owner, website_slug |-> slug]

OwnerRow(u, w) ==
  [t |-> "wedding_users", user_id |-> u, wedding_id |-> w,
   permission_level |-> "edit", relationship |-> "Noivo/Noiva"]

\* The row POST /invite leaves behind.
InvitationRow(id, w, email, level, token) ==
  UpsertInvitation({}, id, [weddingId |-> w, email |-> email, permissionLevel |-> level,
                            relationship |-> "Padrinho"], token)

\* Verified accounts; user 1 has created wedding 1 and invited user 2 to view it.
InitTeam ==
  /\ db = {UserRow(u) : u \in UserIds}
            \cup {WeddingRow(1, 1, "bia-e-ana"), OwnerRow(1, 1),
                  InvitationRow(1, 1, EmailOf(2), "view", 1)}
  /\ conns = [c \in ConnIds |-> NoConn]
  /\ idle = <<>>
  /\ req = [r \in Req |-> IdleReq]
  /\ seq = [NoSeq EXCEPT !.token = 1, !.invitation = 1, !.wedding = 1]
  /\ budget = [started |-> 0, faults |-> 0]
  /\ hist = NoHist

NextTeam ==
  \E r \in Req :
    \/ \E u \in UserIds, e \in Emails, p \in PermissionInputs :
         Invite(r, u, 1, e, p)
    \/ \E u \in UserIds, m \in UserIds, p \in PermissionInputs :
         Request(r, "patchMember", u,
                 [weddingId |-> 1, memberUserId |-> m, permissionLevel |-> p])
    \/ \E u \in UserIds, k \in TokenIds : AcceptInvitation(r, u, k)
    \/ \E u \in UserIds, i \in InvitationIds :
         Request(r, "revokeInvitation", u, [invitationId |-> i])
    \/ Acquire(r)
    \/ Team_canEditWedding(r)
    \/ Invite_existingMember(r)
    \/ Invite_upsert(r)
    \/ Invite_sendTeamInvitationEmail(r)
    \/ PatchMember_update(r)
    \/ AcceptInvitation_select(r)
    \/ AcceptInvitation_insert(r)
    \/ AcceptInvitation_update(r)
    \/ RevokeInvitation_permission(r)
    \/ RevokeInvitation_delete(r)


SpecTeam == InitTeam /\ [][NextTeam]_vars

(***************************************************************************)
(* Invitation acceptance (SpecTeam).                                       *)
(***************************************************************************)
\* Request r takes a step of acceptInvitation that it began after an
\* acceptInvitation of the same token had answered 200.
LateAcceptStep(r) ==
  /\ req[r].op = "acceptInvitation"
  /\ req[r].pc # "done"
  /\ req[r].conn # 0
  /\ req[r].l.late
  /\ req'[r] # req[r]

\* C1: once an acceptInvitation of a token has answered 200, every
\* acceptInvitation of that token begun later, by any caller, answers 404 and
\* leaves the membership rows as they are.
C1_SingleUse ==
  [][\A r \in Req :
       LateAcceptStep(r) =>
         /\ req'[r].pc = "done"
         /\ req'[r].resp = 404
         /\ Members(db') = Members(db)]_vars

\* A token was accepted and a later acceptInvitation of it was answered 404.
C1_Witness ==
  \E k \in TokenIds : hist.accepted[k] = 1 /\ hist.refused[k]

\* C2: whatever the interleaving of acceptInvitation requests carrying the same
\* pending token, at most one of them answers 200 and at most one membership
\* row is inserted for that invitation.
C2_ConsumedOnce ==
  \A k \in TokenIds :
    hist.accepted[k] <= 1 /\ Cardinality(hist.joined[k]) <= 1

(***************************************************************************)
(* routes/weddings.js                                                      *)
(***************************************************************************)
Lower(name) ==
  CASE name \in {"Ana", "ANA"} -> "ana"
    [] name \in {"Bia", "BIA"} -> "bia"
    [] OTHER -> name

\* slugify(`${brideName}-e-${groomName}`, { lower: true, strict: true })
Slugify(brideName, groomName) == Lower(brideName) \o "-e-" \o Lower(groomName)

\* `${baseSlug}-${suffix}`
Suffixed(baseSlug, suffix) == baseSlug \o "-" \o ToString(suffix)

\* req.body.website_slug of PUT /:weddingId
SlugInputs == {NULL, Slugify("Bia", "Ana"), Suffixed(Slugify("Bia", "Ana"), 1)}

\* The slug constraint missing: no write is ever refused.
SlugTaken_Never(V, slug, weddingId) == FALSE

\* The unique constraint weddings_website_slug_key: another wedding holds the slug.
SlugTaken(V, slug, weddingId) ==
  /\ slug # NULL
  /\ \E w \in Weddings(V) : w.website_slug = slug /\ w.wedding_id # weddingId

\* A write of the slug waits while another client's open transaction holds an
\* uncommitted wedding with that slug or is changing a stored one.
SlugWait(c, slug, weddingId) ==
  \/ SlugTaken(Uncommitted(c), slug, weddingId)
  \/ Blocked(c, {w \in Weddings(db) : w.website_slug = slug /\ w.wedding_id # weddingId})

\* canEditWedding: SELECT 1 FROM wedding_users ... AND permission_level = 'edit'
WeddingsCanEditWedding(V, userId, weddingId) ==
  \E wu \in Members(V) :
    wu.user_id = userId /\ wu.wedding_id = weddingId /\ wu.permission_level = "edit"

\* POST /: the names are validated before the first statement.
CreateWedding(r, user, groom_name, bride_name) ==
  /\ Free(r)
  /\ LET inFlight == {s \in Req : req[s].op = "createWedding" /\ req[s].pc \in {"probe", "begin", "insertWedding"}}
     IN  seq.wedding + Cardinality(inFlight) < MaxWeddings
  /\ IF groom_name = "" \/ bride_name = ""
       THEN /\ Reply(r, 400)
            /\ req'[r].op = "createWedding"
            /\ budget' = [budget EXCEPT !.started = @ + 1]
            /\ UNCHANGED <<db, conns, idle, seq, hist>>
       ELSE Begin(r, "createWedding", "probe", user,
                  [baseSlug |-> Slugify(bride_name, groom_name)],
                  [slug |-> Slugify(bride_name, groom_name), suffix |-> 1, weddingId |-> 0,
                   error |-> NULL])

\* The loop left after its first turn, whatever the probe found.
CreateWedding_probe_Once(r) ==
  /\ Running(r, "createWedding", "probe")
  /\ IF Broken(req[r].conn) THEN Refused(r)
     ELSE /\ Goto(r, "begin", req[r].l)
          /\ Ran(r, db, conns)
          /\ UNCHANGED <<seq, budget, hist>>

\* generateUniqueSlug: one turn of the do-while loop.
CreateWedding_probe(r) ==
  /\ Running(r, "createWedding", "probe")
  /\ LET c == req[r].conn
         l == req[r].l
         existing == {w \in Weddings(View(c)) : w.website_slug = l.slug}
     IN  IF Broken(c) THEN Refused(r)
         ELSE /\ IF existing # {}
                   THEN Goto(r, "probe", [l EXCEPT !.slug = Suffixed(req[r].a.baseSlug, l.suffix),
                                                   !.suffix = @ + 1])
                   ELSE Goto(r, "begin", l)
              /\ Ran(r, db, conns)
              /\ UNCHANGED <<seq, budget, hist>>

CreateWedding_begin(r) ==
  /\ Running(r, "createWedding", "begin")
  /\ IF Broken(req[r].conn) THEN Refused(r)
     ELSE /\ Ran(r, db, BeginTx(req[r].conn))
          /\ Goto(r, "insertWedding", req[r].l)
          /\ UNCHANGED <<seq, budget, hist>>

\* INSERT INTO weddings ... RETURNING *
CreateWedding_insertWedding(r) ==
  /\ Running(r, "createWedding", "insertWedding")
  /\ LET c == req[r].conn
         id == seq.wedding + 1
         new == WeddingRow(id, req[r].user, req[r].l.slug)
     IN  IF Broken(c) THEN Refused(r)
         ELSE /\ ~SlugWait(c, req[r].l.slug, id)
              /\ seq' = [seq EXCEPT !.wedding = id]
              /\ UNCHANGED budget
              /\ IF SlugTaken(View(c), req[r].l.slug, id)
                   THEN /\ Ran(r, db, FailTx(c))
                        /\ Goto(r, "rollback", [req[r].l EXCEPT !.error = "23505"])
                        /\ hist' = [hist EXCEPT !.conflict = @ \cup {"createWedding"}]
                   ELSE /\ Ran(r, WriteDb(c, {}, {new}), WriteConns(c, {}, {new}))
                        /\ Goto(r, "insertMember", [req[r].l EXCEPT !.weddingId = id])
                        /\ UNCHANGED hist

\* INSERT INTO wedding_users (...) VALUES ($1, $2, 'Noivo/Noiva', 'edit')
CreateWedding_insertMember(r) ==
  /\ Running(r, "createWedding", "insertMember")
  /\ LET c == req[r].conn
         new == OwnerRow(req[r].user, req[r].l.weddingId)
     IN  IF Broken(c) THEN Refused(r)
         ELSE /\ Ran(r, WriteDb(c, {}, {new}), WriteConns(c, {}, {new}))
              /\ Goto(r, "commit", req[r].l)
              /\ UNCHANGED <<seq, budget, hist>>

CreateWedding_commit(r) ==
  /\ Running(r, "createWedding", "commit")
  /\ Ran(r, CommitDb(req[r].conn), EndTx(req[r].conn))
  /\ Reply(r, 201)
  /\ UNCHANGED <<seq, budget, hist>>

\* catch (error) { await db.query('ROLLBACK'); res.status(500) }
Rollback(r) ==
  /\ req[r].pc = "rollback"
  /\ req[r].conn # 0
  /\ Ran(r, db, EndTx(req[r].conn))
  /\ Reply(r, 500)
  /\ UNCHANGED <<seq, budget, hist>>

UpdateWedding_canEditWedding(r) ==
  /\ Running(r, "updateWedding", "canEditWedding")
  /\ IF Broken(req[r].conn) THEN Refused(r)
     ELSE /\ IF WeddingsCanEditWedding(View(req[r].conn), req[r].user, req[r].a.weddingId)
               THEN Goto(r, "update", req[r].l) /\ UNCHANGED hist
               ELSE Deny(r)
          /\ Ran(r, db, conns)
          /\ UNCHANGED <<seq, budget>>

\* UPDATE weddings SET ..., website_slug = $5, ... WHERE wedding_id = $17
UpdateWedding_update(r) ==
  /\ Running(r, "updateWedding", "update")
  /\ LET c == req[r].conn
         a == req[r].a
         old == {w \in Weddings(View(c)) : w.wedding_id = a.weddingId}
         new == {[w EXCEPT !.website_slug = a.website_slug] : w \in old}
     IN  IF Broken(c) THEN Refused(r)
         ELSE /\ ~Blocked(c, old)
              /\ old # {} => ~SlugWait(c, a.website_slug, a.weddingId)
              /\ UNCHANGED <<seq, budget>>
              /\ IF old # {} /\ SlugTaken(View(c), a.website_slug, a.weddingId)
                   THEN /\ Ran(r, db, FailTx(c))
                        /\ Reply(r, 400)
                        /\ hist' = [hist EXCEPT !.conflict = @ \cup {"updateWedding"}]
                   ELSE /\ Ran(r, WriteDb(c, old, new), WriteConns(c, old, new))
                        /\ Reply(r, 200)
                        /\ UNCHANGED hist

\* The storage fails the statement request r is running (an insert of
\* createWedding, a delete of deleteAccount, the status update of
\* acceptInvitation): nothing is written, the client's transaction, if any, is
\* failed, and the handler's catch block runs.
QueryError(r) ==
  /\ \/ req[r].pc \in {"insertWedding", "insertMember", "deleteInvitations", "deleteTokens",
                      "deleteMembers", "deleteUser"}
     \/ req[r].op = "acceptInvitation" /\ req[r].pc = "update"
  /\ req[r].conn # 0
  /\ budget.faults < MaxFaults
  /\ budget' = [budget EXCEPT !.faults = @ + 1]
  /\ Ran(r, db, FailTx(req[r].conn))
  /\ Throw(r)
  /\ UNCHANGED <<seq, hist>>

\* Verified accounts; user 1 has created wedding 1.
InitWeddings ==
  /\ db = {UserRow(u) : u \in UserIds}
            \cup {WeddingRow(1, 1, Slugify("Bia", "Ana")), OwnerRow(1, 1)}
  /\ conns = [c \in ConnIds |-> NoConn]
  /\ idle = <<>>
  /\ req = [r \in Req |-> IdleReq]
  /\ seq = [NoSeq EXCEPT !.wedding = 1]
  /\ budget = [started |-> 0, faults |-> 0]
  /\ hist = NoHist

NextWeddings ==
  \E r \in Req :
    \/ \E u \in UserIds, n \in {<<"Ana", "Bia">>, <<"ANA", "BIA">>, <<"", "Bia">>} : CreateWedding(r, u, n[1], n[2])
    \/ \E u \in UserIds, w \in WeddingIds, s \in SlugInputs :
         Request(r, "updateWedding", u, [weddingId |-> w, website_slug |-> s])
    \/ Acquire(r)
    \/ CreateWedding_probe(r)
    \/ CreateWedding_begin(r)
    \/ CreateWedding_insertWedding(r)
    \/ CreateWedding_insertMember(r)
    \/ CreateWedding_commit(r)
    \/ Rollback(r)
    \/ UpdateWedding_canEditWedding(r)
    \/ UpdateWedding_update(r)
    \/ QueryError(r)

SpecWeddings == InitWeddings /\ [][NextWeddings]_vars

\* Every request that can take a step is eventually served.
SpecWeddingsFair == SpecWeddings /\ WF_vars(NextWeddings)

(***************************************************************************)
(* Weddings (SpecWeddings).                                                *)
(***************************************************************************)
\* C5: in every reachable state no two stored weddings have the same
\* website_slug, whatever the interleaving of createWedding and updateWedding
\* requests (a wedding whose slug is NULL has none).
C5_UniqueSlug ==
  \A x, y \in Weddings(db) :
    (x.website_slug = y.website_slug /\ x.website_slug # NULL) => x = y

\* Two weddings with slugs are stored and a createWedding that lost the
\* allocation race has been refused by the slug constraint.
C5_Witness ==
  /\ "createWedding" \in hist.conflict
  /\ Cardinality({w \in Weddings(db) : w.website_slug # NULL}) >= 2

\* C6: when a createWedding request finishes, with success or after a failure
\* of either insert, the wedding it created is stored exactly when its
\* creator's edit membership 'Noivo/Noiva' is stored.
C6_AllOrNothing ==
  [][\A r \in Req :
       (req[r].op = "createWedding" /\ req[r].pc # "done" /\ req'[r].pc = "done") =>
         ((\E w \in Weddings(db') : w.wedding_id = req[r].l.weddingId)
            <=> OwnerRow(req[r].user, req[r].l.weddingId) \in db')]_vars

(***************************************************************************)
(* routes/users.js and the password reset of routes/auth.js                *)
(***************************************************************************)
RefreshTokens(V) == Table(V, "refresh_tokens")

RefreshTokenRow(u, token) == [t |-> "refresh_tokens", user_id |-> u, token |-> token]

\* DELETE /me
DeleteAccount(r, user) ==
  /\ Free(r)
  /\ Begin(r, "deleteAccount", "begin", user, <<>>, [deleted |-> {}])

DeleteAccount_begin(r) ==
  /\ Running(r, "deleteAccount", "begin")
  /\ IF Broken(req[r].conn) THEN Refused(r)
     ELSE /\ Ran(r, db, BeginTx(req[r].conn))
          /\ Goto(r, "deleteInvitations", req[r].l)
          /\ UNCHANGED <<seq, budget, hist>>

\* One DELETE of the handler on the rows old, then on to position next; the
\* request remembers the stored rows its statements have matched.
DeleteRows(r, old, next) ==
  LET c == req[r].conn
  IN  IF Broken(c) THEN Refused(r)
      ELSE /\ ~Blocked(c, old)
           /\ Ran(r, WriteDb(c, old, {}), WriteConns(c, old, {}))
           /\ Goto(r, next, [req[r].l EXCEPT !.deleted = @ \cup (old \cap db)])
           /\ UNCHANGED <<seq, budget, hist>>

\* DELETE FROM wedding_invitations WHERE email = (SELECT email FROM users WHERE user_id = $1)
InvitationsOfUser(V, userId) ==
  {i \in Invitations(V) : \E u \in Users(V) : u.user_id = userId /\ i.email = u.email}

DeleteAccount_deleteInvitations(r) ==
  /\ Running(r, "deleteAccount", "deleteInvitations")
  /\ DeleteRows(r, InvitationsOfUser(View(req[r].conn), req[r].user), "deleteTokens")

\* DELETE FROM refresh_tokens WHERE user_id = $1
DeleteAccount_deleteTokens(r) ==
  /\ Running(r, "deleteAccount", "deleteTokens")
  /\ DeleteRows(r, {x \in RefreshTokens(View(req[r].conn)) : x.user_id = req[r].user},
                "deleteMembers")

\* DELETE FROM wedding_users WHERE user_id = $1
DeleteAccount_deleteMembers(r) ==
  /\ Running(r, "deleteAccount", "deleteMembers")
  /\ DeleteRows(r, {x \in Members(View(req[r].conn)) : x.user_id = req[r].user},
                "deleteUser")

\* DELETE FROM users WHERE user_id = $1; rowCount === 0 throws.
DeleteAccount_deleteUser(r) ==
  /\ Running(r, "deleteAccount", "deleteUser")
  /\ LET old == {x \in Users(View(req[r].conn)) : x.user_id = req[r].user}
     IN  IF old = {} /\ ~Broken(req[r].conn)
           THEN /\ Ran(r, db, conns)
                /\ Throw(r)
                /\ UNCHANGED <<seq, budget, hist>>
           ELSE DeleteRows(r, old, "commit")

DeleteAccount_commit(r) ==
  /\ Running(r, "deleteAccount", "commit")
  /\ Ran(r, CommitDb(req[r].conn), EndTx(req[r].conn))
  /\ Reply(r, 200)
  /\ UNCHANGED <<seq, budget, hist>>

\* Verified accounts with a session each; user 1 has created wedding 1 and
\* invited user 2 to view it.
InitAccount ==
  /\ db = {UserRow(u) : u \in UserIds}
            \cup {RefreshTokenRow(u, u) : u \in UserIds}
            \cup {WeddingRow(1, 1, Slugify("Bia", "Ana")), OwnerRow(1, 1),
                  InvitationRow(1, 1, EmailOf(2), "view", 1)}
  /\ conns = [c \in ConnIds |-> NoConn]
  /\ idle = <<>>
  /\ req = [r \in Req |-> IdleReq]
  /\ seq = [NoSeq EXCEPT !.token = 1, !.invitation = 1, !.wedding = 1]
  /\ budget = [started |-> 0, faults |-> 0]
  /\ hist = NoHist

NextAccount ==
  \E r \in Req :
    \/ \E u \in UserIds : DeleteAccount(r, u)
    \/ \E u \in UserIds, w \in WeddingIds, s \in SlugInputs :
         Request(r, "updateWedding", u, [weddingId |-> w, website_slug |-> s])
    \/ Acquire(r)
    \/ DeleteAccount_begin(r)
    \/ DeleteAccount_deleteInvitations(r)
    \/ DeleteAccount_deleteTokens(r)
    \/ DeleteAccount_deleteMembers(r)
    \/ DeleteAccount_deleteUser(r)
    \/ DeleteAccount_commit(r)
    \/ Rollback(r)
    \/ UpdateWedding_canEditWedding(r)
    \/ UpdateWedding_update(r)
    \/ QueryError(r)

SpecAccount == InitAccount /\ [][NextAccount]_vars

\* Request r of deleteAccount answers in this step.
DeleteAccountReplies(r, code) ==
  /\ req[r].op = "deleteAccount"
  /\ req[r].pc # "done"
  /\ req'[r].pc = "done"
  /\ req'[r].resp = code

\* C7: a deleteAccount that answers 500, because one of its deletes failed or
\* the last one found no user row, leaves stored every invitation, refresh
\* token, membership and user row its deletes had matched.
C7_FullRollback ==
  [][\A r \in Req :
       DeleteAccountReplies(r, 500) => req[r].l.deleted \subseteq db']_vars

\* C8: when deleteAccount(u) answers 200 the store holds no refresh token of u,
\* no membership of u, no pending invitation to u's email and no user row of u.
C8_Erased ==
  [][\A r \in Req :
       LET u == req[r].user
       IN  DeleteAccountReplies(r, 200) =>
             /\ {x \in RefreshTokens(db') \cup Members(db') \cup Users(db') :
                    x.user_id = u} = {}
             /\ {i \in Invitations(db') :
                    i.email = EmailOf(u) /\ i.status = "pending"} = {}]_vars

\* POST /request-password-reset
RequestPasswordReset(r, email) ==
  /\ Free(r)
  /\ Begin(r, "requestPasswordReset", "selectUser", 0, [email |-> email], [user_id |-> 0])

RequestPasswordReset_selectUser(r) ==
  /\ Running(r, "requestPasswordReset", "selectUser")
  /\ IF Broken(req[r].conn) THEN Refused(r)
     ELSE /\ LET \* SELECT * FROM users WHERE email = $1 AND is_verified = true
                 result == {u \in Users(View(req[r].conn)) :
                              u.email = req[r].a.email /\ u.is_verified}
             IN  IF result = {}
                   THEN Reply(r, 200)
                   ELSE Goto(r, "insertToken", [user_id |-> (CHOOSE u \in result : TRUE).user_id])
          /\ Ran(r, db, conns)
          /\ UNCHANGED <<seq, budget, hist>>

\* INSERT INTO password_reset_tokens (user_id, token, expires_at)
RequestPasswordReset_insertToken(r) ==
  /\ Running(r, "requestPasswordReset", "insertToken")
  /\ LET c == req[r].conn
     IN  IF Broken(c) THEN Refused(r)
         ELSE \E code \in TokenIds :
                LET new == [t |-> "password_reset_tokens", id |-> seq.reset + 1,
                            user_id |-> req[r].l.user_id, token |-> code]
                IN  /\ Ran(r, WriteDb(c, {}, {new}), WriteConns(c, {}, {new}))
                    /\ seq' = [seq EXCEPT !.reset = @ + 1]
                    /\ Goto(r, "sendEmail", req[r].l)
                    /\ UNCHANGED <<budget, hist>>

\* await sendPasswordResetEmail(email, token): the dispatch succeeds or throws.
RequestPasswordReset_sendPasswordResetEmail(r) ==
  /\ req[r].op = "requestPasswordReset" /\ req[r].pc = "sendEmail"
  /\ \E sent \in BOOLEAN : Reply(r, IF sent THEN 200 ELSE 500)
  /\ UNCHANGED <<db, conns, idle, seq, budget, hist>>

\* Account erasure and password reset requests served one after the other.
NextErase ==
  \E r \in Req :
    \/ /\ \A s \in Req : req[s].pc \in {"idle", "done"}   \* no request is in flight
       /\ \E u \in UserIds : DeleteAccount(r, u)
    \/ /\ \A s \in Req : req[s].pc \in {"idle", "done"}
       /\ \E e \in Emails \cup {AllEmails[MaxUsers + 1]} :   \* and one no user has
            RequestPasswordReset(r, e)
    \/ Acquire(r)
    \/ DeleteAccount_begin(r)
    \/ DeleteAccount_deleteInvitations(r)
    \/ DeleteAccount_deleteTokens(r)
    \/ DeleteAccount_deleteMembers(r)
    \/ DeleteAccount_deleteUser(r)
    \/ DeleteAccount_commit(r)
    \/ Rollback(r)
    \/ RequestPasswordReset_selectUser(r)
    \/ RequestPasswordReset_insertToken(r)
    \/ RequestPasswordReset_sendPasswordResetEmail(r)

SpecErase == InitAccount /\ [][NextErase]_vars

\* C9: when deleteAccount(u) answers 200 no password-reset token of u is
\* stored, also when u had requested a reset that was never used.
C9_NoResetToken ==
  [][\A r \in Req :
       DeleteAccountReplies(r, 200) =>
         {x \in Table(db', "password_reset_tokens") : x.user_id = req[r].user} = {}]_vars


(***************************************************************************)
(* Guarded writes: site details, guests, vendors and budget items.         *)
(***************************************************************************)
\* A guard's statement has run for request r: the next handler of the route
\* runs if it found a row, else 403.
Guard(r, allowed, next) ==
  IF Broken(req[r].conn) THEN Refused(r)
  ELSE /\ IF allowed THEN next /\ UNCHANGED hist ELSE Deny(r)
       /\ Ran(r, db, conns)
       /\ UNCHANGED <<seq, budget>>

\* A write of request r has run: rows old become rows new, the handler goes on
\* with next (its following statement, or its response).
Write(r, old, new, next, seq2) ==
  LET c == req[r].conn
  IN  IF Broken(c) THEN Refused(r)
      ELSE /\ ~Blocked(c, old)
           /\ Ran(r, WriteDb(c, old, new), WriteConns(c, old, new))
           /\ next
           /\ seq' = seq2
           /\ UNCHANGED <<budget, hist>>

SaveSiteDetails_canEditWedding(r) ==
  /\ Running(r, "saveSiteDetails", "canEditWedding")
  /\ Guard(r, WeddingsCanEditWedding(View(req[r].conn), req[r].user, req[r].a.weddingId),
           Goto(r, "upsert", req[r].l))

\* INSERT INTO wedding_site_details ... ON CONFLICT (wedding_id) DO UPDATE SET our_story = $2
SaveSiteDetails_upsert(r) ==
  /\ Running(r, "saveSiteDetails", "upsert")
  /\ LET a == req[r].a
         old == {d \in Table(View(req[r].conn), "wedding_site_details") : d.wedding_id = a.weddingId}
         new == {[t |-> "wedding_site_details", wedding_id |-> a.weddingId,
                  our_story |-> a.our_story]}
     IN  /\ \A x \in Uncommitted(req[r].conn) :
               ~(x.t = "wedding_site_details" /\ x.wedding_id = a.weddingId)
         /\ Write(r, old, new, Reply(r, 200), seq)

\* guests.js: SELECT 1 FROM wedding_users WHERE user_id = $1 AND wedding_id = $2
GuestsCanAccessWedding(V, userId, weddingId) ==
  \E wu \in Members(V) : wu.user_id = userId /\ wu.wedding_id = weddingId

\* guests.js: ... AND permission_level = 'edit'
GuestsCanEditWedding(V, userId, weddingId) ==
  \E wu \in Members(V) :
    wu.user_id = userId /\ wu.wedding_id = weddingId /\ wu.permission_level = "edit"

\* The join without its permission_level condition.
CanEditGuest_AnyLevel(V, userId, guestId) ==
  \E g \in Guests(V) : \E wu \in Members(V) :
    g.guest_id = guestId /\ g.wedding_id = wu.wedding_id /\ wu.user_id = userId

\* guests g JOIN wedding_users wu ON g.wedding_id = wu.wedding_id
\* WHERE g.guest_id = $1 AND wu.user_id = $2 AND wu.permission_level = 'edit'
CanEditGuest(V, userId, guestId) ==
  \E g \in Guests(V) : \E wu \in Members(V) :
    /\ g.guest_id = guestId
    /\ g.wedding_id = wu.wedding_id
    /\ wu.user_id = userId
    /\ wu.permission_level = "edit"

\* The RSVP token the store gives guest id when the row is inserted: a
\* per-guest identifier.
RsvpToken(id) == id

GuestRow(id, weddingId, full_name, rsvp_status, created_by) ==
  [t |-> "guests", guest_id |-> id, wedding_id |-> weddingId, full_name |-> full_name,
   rsvp_status |-> rsvp_status, guest_message |-> NULL, rsvp_token |-> RsvpToken(id),
   created_by |-> created_by]

AddGuest_canEditWedding(r) ==
  /\ Running(r, "addGuest", "canEditWedding")
  /\ Guard(r, GuestsCanEditWedding(View(req[r].conn), req[r].user, req[r].a.weddingId),
           Goto(r, "insert", req[r].l))

AddGuest_insert(r) ==
  /\ Running(r, "addGuest", "insert")
  /\ Write(r, {}, {GuestRow(seq.guest + 1, req[r].a.weddingId, req[r].a.full_name,
                            NULL, req[r].user)},
           Reply(r, 201), [seq EXCEPT !.guest = @ + 1])

UpdateGuest_permission(r) ==
  /\ Running(r, "updateGuest", "permission")
  /\ Guard(r, CanEditGuest(View(req[r].conn), req[r].user, req[r].a.guestId),
           Goto(r, "update", req[r].l))

\* UPDATE guests SET full_name = $1, ..., rsvp_status = $4 WHERE guest_id = $5
UpdateGuest_update(r) ==
  /\ Running(r, "updateGuest", "update")
  /\ LET a == req[r].a
         old == {g \in Guests(View(req[r].conn)) : g.guest_id = a.guestId}
         new == {[g EXCEPT !.full_name = a.full_name, !.rsvp_status = a.rsvp_status] :
                   g \in old}
     IN  Write(r, old, new, Reply(r, 200), seq)

DeleteGuest_permission(r) ==
  /\ Running(r, "deleteGuest", "permission")
  /\ Guard(r, CanEditGuest(View(req[r].conn), req[r].user, req[r].a.guestId),
           Goto(r, "delete", req[r].l))

DeleteGuest_delete(r) ==
  /\ Running(r, "deleteGuest", "delete")
  /\ Write(r, {g \in Guests(View(req[r].conn)) : g.guest_id = req[r].a.guestId}, {},
           Reply(r, 204), seq)

\* vendors.js: SELECT 1 FROM wedding_users WHERE user_id = $1 AND wedding_id = $2
VendorsCanAccessWedding(V, userId, weddingId) ==
  \E wu \in Members(V) : wu.user_id = userId /\ wu.wedding_id = weddingId

\* vendors.js: ... AND permission_level = 'edit'
VendorsCanEditByWeddingId(V, userId, weddingId) ==
  \E wu \in Members(V) :
    wu.user_id = userId /\ wu.wedding_id = weddingId /\ wu.permission_level = "edit"

\* vendors v JOIN wedding_users wu ON v.wedding_id = wu.wedding_id
\* WHERE v.vendor_id = $1 AND wu.user_id = $2 AND wu.permission_level = 'edit'
CanEditWeddingByVendor(V, userId, vendorId) ==
  \E v \in Vendors(V) : \E wu \in Members(V) :
    /\ v.vendor_id = vendorId
    /\ v.wedding_id = wu.wedding_id
    /\ wu.user_id = userId
    /\ wu.permission_level = "edit"

VendorRow(id, weddingId, vendor_name) ==
  [t |-> "vendors", vendor_id |-> id, wedding_id |-> weddingId, vendor_name |-> vendor_name]

Vendors_canEditByWeddingId(r) ==
  /\ Running(r, "addVendor", "canEditByWeddingId")
  /\ Guard(r, VendorsCanEditByWeddingId(View(req[r].conn), req[r].user, req[r].a.weddingId),
           Goto(r, "insert", req[r].l))

Vendors_canEditWeddingByVendor(r) ==
  /\ req[r].op \in VendorScoped
  /\ Running(r, req[r].op, "canEditWeddingByVendor")
  /\ Guard(r, CanEditWeddingByVendor(View(req[r].conn), req[r].user, req[r].a.vendorId),
           Goto(r, IF req[r].op = "updateVendor" THEN "update" ELSE "delete", req[r].l))

AddVendor_insert(r) ==
  /\ Running(r, "addVendor", "insert")
  /\ Write(r, {}, {VendorRow(seq.vendor + 1, req[r].a.weddingId, req[r].a.vendor_name)},
           Reply(r, 201), [seq EXCEPT !.vendor = @ + 1])

\* UPDATE vendors SET vendor_name = $1, ... WHERE vendor_id = $9
UpdateVendor_update(r) ==
  /\ Running(r, "updateVendor", "update")
  /\ LET old == {v \in Vendors(View(req[r].conn)) : v.vendor_id = req[r].a.vendorId}
     IN  Write(r, old, {[v EXCEPT !.vendor_name = req[r].a.vendor_name] : v \in old},
               Reply(r, 200), seq)

DeleteVendor_delete(r) ==
  /\ Running(r, "deleteVendor", "delete")
  /\ Write(r, {v \in Vendors(View(req[r].conn)) : v.vendor_id = req[r].a.vendorId}, {},
           Reply(r, 204), seq)

\* budget.js: SELECT 1 FROM wedding_users WHERE user_id = $1 AND wedding_id = $2
BudgetCanAccessWedding(V, userId, weddingId) ==
  \E wu \in Members(V) : wu.user_id = userId /\ wu.wedding_id = weddingId

\* budget.js: ... AND permission_level = 'edit'
BudgetCanEditByWeddingId(V, userId, weddingId) ==
  \E wu \in Members(V) :
    wu.user_id = userId /\ wu.wedding_id = weddingId /\ wu.permission_level = "edit"

\* budget_items bi JOIN wedding_users wu ON bi.wedding_id = wu.wedding_id
\* WHERE bi.item_id = $1 AND wu.user_id = $2 AND wu.permission_level = 'edit'
BudgetCanEditByItemId(V, userId, itemId) ==
  \E bi \in BudgetItems(V) : \E wu \in Members(V) :
    /\ bi.item_id = itemId
    /\ bi.wedding_id = wu.wedding_id
    /\ wu.user_id = userId
    /\ wu.permission_level = "edit"

\* req.body of the budget routes: category, final_value, paid_value, decision_status.
BudgetBody(category, final_value, paid_value, decision_status) ==
  [category |-> category, final_value |-> final_value, paid_value |-> paid_value,
   decision_status |-> decision_status]

BudgetRow(id, weddingId, body) ==
  [t |-> "budget_items", item_id |-> id, wedding_id |-> weddingId,
   category |-> body.category, final_value |-> body.final_value,
   paid_value |-> body.paid_value, decision_status |-> body.decision_status]

\* canEditByWeddingId, then the handler up to its first statement:
\* if (!category || !final_value) return res.status(400)
Budget_canEditByWeddingId(r) ==
  /\ Running(r, "addBudgetItem", "canEditByWeddingId")
  /\ Guard(r, BudgetCanEditByWeddingId(View(req[r].conn), req[r].user, req[r].a.weddingId),
           IF req[r].a.body.category = NULL \/ req[r].a.body.final_value = 0
             THEN Reply(r, 400)
             ELSE Goto(r, "insert", req[r].l))

\* canEditByItemId, then the handler up to its first statement:
\* PATCH rejects a decision_status outside the three values with 400.
Budget_canEditByItemId(r) ==
  /\ req[r].op \in ItemScoped
  /\ Running(r, req[r].op, "canEditByItemId")
  /\ Guard(r, BudgetCanEditByItemId(View(req[r].conn), req[r].user, req[r].a.itemId),
           CASE req[r].op = "deleteBudgetItem" -> Goto(r, "delete", req[r].l)
             [] req[r].op = "updateBudgetItem" -> Goto(r, "update", req[r].l)
             [] OTHER ->
                  IF req[r].a.decision_status \notin {"Contratado", "Recusado", "Analisando"}
                    THEN Reply(r, 400)
                    ELSE Goto(r, "update", req[r].l))

\* paid_value || 0, decision_status || 'Analisando'
AddBudgetItem_insert(r) ==
  /\ Running(r, "addBudgetItem", "insert")
  /\ LET b == req[r].a.body
         body == [b EXCEPT !.decision_status = IF @ \in {NULL, ""} THEN "Analisando" ELSE @]
     IN  Write(r, {}, {BudgetRow(seq.item + 1, req[r].a.weddingId, body)},
               Reply(r, 201), [seq EXCEPT !.item = @ + 1])

\* UPDATE budget_items SET decision_status = $1 WHERE item_id = $2; 404 if no row
PatchItemStatus_update(r) ==
  /\ Running(r, "patchItemStatus", "update")
  /\ LET old == {b \in BudgetItems(View(req[r].conn)) : b.item_id = req[r].a.itemId}
     IN  Write(r, old, {[b EXCEPT !.decision_status = req[r].a.decision_status] : b \in old},
               Reply(r, IF old = {} THEN 404 ELSE 200), seq)

\* UPDATE budget_items SET category = $1, ..., decision_status = $5 ... WHERE item_id = $7
UpdateBudgetItem_update(r) ==
  /\ Running(r, "updateBudgetItem", "update")
  /\ LET old == {b \in BudgetItems(View(req[r].conn)) : b.item_id = req[r].a.itemId}
     IN  Write(r, old, {BudgetRow(b.item_id, b.wedding_id, req[r].a.body) : b \in old},
               Reply(r, IF old = {} THEN 404 ELSE 200), seq)

DeleteBudgetItem_delete(r) ==
  /\ Running(r, "deleteBudgetItem", "delete")
  /\ Write(r, {b \in BudgetItems(View(req[r].conn)) : b.item_id = req[r].a.itemId}, {},
           Reply(r, 204), seq)

(***************************************************************************)
(* The guards over every write route of the planning team.                 *)
(***************************************************************************)
ViewerRow(u, w) ==
  [OwnerRow(u, w) EXCEPT !.permission_level = "view", !.relationship = "Padrinho"]

\* User 1 has created wedding 1 and user 3 wedding 2; user 2 has joined wedding 1
\* as a viewer and user 3 is invited to it; wedding 1 has a guest, a vendor and
\* a budget item.
InitGuard ==
  /\ db = {UserRow(u) : u \in UserIds}
            \cup {WeddingRow(1, 1, "bia-e-ana"), OwnerRow(1, 1), ViewerRow(2, 1),
                  WeddingRow(2, 3, "caio-e-duda"), OwnerRow(3, 2),
                  InvitationRow(1, 1, EmailOf(3), "view", 1)}
            \cup {GuestRow(1, 1, "Tia Eva", NULL, 1), VendorRow(1, 1, "Buffet Sol"),
                  BudgetRow(1, 1, BudgetBody("Buffet", 100, 0, "Analisando"))}
  /\ conns = [c \in ConnIds |-> NoConn]
  /\ idle = <<>>
  /\ req = [r \in Req |-> IdleReq]
  /\ seq = [NoSeq EXCEPT !.token = 1, !.invitation = 1, !.wedding = 2,
                         !.guest = 1, !.vendor = 1, !.item = 1]
  /\ budget = [started |-> 0, faults |-> 0]
  /\ hist = NoHist

\* The requests of SpecGuard: any caller, either wedding, a stored row of
\* wedding 1 or an id no row has yet.
NextGuard ==
  \E r \in Req :
    \/ \E u \in UserIds :
         \/ \E w \in 1..2 :
              \/ Invite(r, u, w, EmailOf(2), "edit")
              \/ \E p \in {"view", "edit"} :
                   Request(r, "patchMember", u,
                           [weddingId |-> w, memberUserId |-> 2, permissionLevel |-> p])
              \/ Request(r, "updateWedding", u, [weddingId |-> w, website_slug |-> "festa"])
              \/ Request(r, "saveSiteDetails", u,
                         [weddingId |-> w, our_story |-> "Era uma vez"])
              \/ Request(r, "addGuest", u, [weddingId |-> w, full_name |-> "Tio Leo"])
              \/ Request(r, "addVendor", u, [weddingId |-> w, vendor_name |-> "Foto Lua"])
              \/ Request(r, "addBudgetItem", u,
                         [weddingId |-> w, body |-> BudgetBody("Foto", 100, 0, NULL)])
         \/ \E i \in InvitationIds : Request(r, "revokeInvitation", u, [invitationId |-> i])
         \/ \E k \in TokenIds : AcceptInvitation(r, u, k)
         \/ \E i \in ItemIds :
              \/ Request(r, "updateGuest", u,
                         [guestId |-> i, full_name |-> "Tia Eva", rsvp_status |-> "confirmed"])
              \/ Request(r, "deleteGuest", u, [guestId |-> i])
              \/ Request(r, "updateVendor", u, [vendorId |-> i, vendor_name |-> "Foto Lua"])
              \/ Request(r, "deleteVendor", u, [vendorId |-> i])
              \/ Request(r, "patchItemStatus", u,
                         [itemId |-> i, decision_status |-> "Contratado"])
              \/ Request(r, "updateBudgetItem", u,
                         [itemId |-> i, body |-> BudgetBody("Foto", 100, 100, "Contratado")])
              \/ Request(r, "deleteBudgetItem", u, [itemId |-> i])
    \/ Acquire(r)
    \/ Team_canEditWedding(r)
    \/ Invite_existingMember(r)
    \/ Invite_upsert(r)
    \/ Invite_sendTeamInvitationEmail(r)
    \/ PatchMember_update(r)
    \/ AcceptInvitation_select(r)
    \/ AcceptInvitation_insert(r)
    \/ AcceptInvitation_update(r)
    \/ RevokeInvitation_permission(r)
    \/ RevokeInvitation_delete(r)
    \/ UpdateWedding_canEditWedding(r)
    \/ UpdateWedding_update(r)
    \/ SaveSiteDetails_canEditWedding(r)
    \/ SaveSiteDetails_upsert(r)
    \/ AddGuest_canEditWedding(r)
    \/ AddGuest_insert(r)
    \/ UpdateGuest_permission(r)
    \/ UpdateGuest_update(r)
    \/ DeleteGuest_permission(r)
    \/ DeleteGuest_delete(r)
    \/ Vendors_canEditByWeddingId(r)
    \/ Vendors_canEditWeddingByVendor(r)
    \/ AddVendor_insert(r)
    \/ UpdateVendor_update(r)
    \/ DeleteVendor_delete(r)
    \/ Budget_canEditByWeddingId(r)
    \/ Budget_canEditByItemId(r)
    \/ AddBudgetItem_insert(r)
    \/ PatchItemStatus_update(r)
    \/ UpdateBudgetItem_update(r)
    \/ DeleteBudgetItem_delete(r)

SpecGuard == InitGuard /\ [][NextGuard]_vars

\* The guard check of write request r runs in this step.
GuardCheck(r) ==
  /\ req[r].op \in WeddingScoped \cup GuestScoped \cup VendorScoped \cup ItemScoped
                    \cup {"revokeInvitation"}
  \* the positions at which a request waits for its guard's statement
  /\ req[r].pc \in {"canEditWedding", "permission", "canEditByWeddingId",
                   "canEditWeddingByVendor", "canEditByItemId"}
  /\ req[r].conn # 0
  /\ req'[r] # req[r]

\* C3: a write request whose caller, when its guard check runs, has no
\* membership row with permission_level = edit on the wedding that owns the
\* target (the wedding named by the request, or the one stored on the guest,
\* vendor, budget item or invitation it names) is answered 403 by that very
\* step, and the step changes no stored row.
C3_EditRequired ==
  [][\A r \in Req :
       (GuardCheck(r) /\ "edit" \notin LevelsOf(db, req[r].user, OwningWedding(db, r)))
         => (req'[r].pc = "done" /\ req'[r].resp = 403 /\ db' = db)]_vars

\* A viewer of the owning wedding has been refused a guest update and a
\* non-member a budget item deletion.
C3_Witness ==
  /\ <<"updateGuest", {"view"}>> \in hist.forbidden
  /\ <<"deleteBudgetItem", {}>> \in hist.forbidden

\* The answers of the access guards and of the edit guards of every route file
\* for the pair (userId, weddingId).
AccessGuards(V, userId, weddingId) ==
  {TeamCanAccessWedding(V, userId, weddingId), GuestsCanAccessWedding(V, userId, weddingId),
   VendorsCanAccessWedding(V, userId, weddingId), BudgetCanAccessWedding(V, userId, weddingId)}

EditGuards(V, userId, weddingId) ==
  {TeamCanEditWedding(V, userId, weddingId), WeddingsCanEditWedding(V, userId, weddingId),
   GuestsCanEditWedding(V, userId, weddingId), VendorsCanEditByWeddingId(V, userId, weddingId),
   BudgetCanEditByWeddingId(V, userId, weddingId)}

\* C4: for every user and wedding the guards follow the membership row of the
\* pair: with no row every access guard and every edit guard rejects, with a view row every access guard accepts and
\* every edit guard rejects, with an edit row all of them accept; and an edit
\* guard never accepts where an access guard rejects.
C4_AccessDecision ==
  \A u \in UserIds, w \in WeddingIds :
    LET L == LevelsOf(db, u, {w})
    IN  /\ L = {} => AccessGuards(db, u, w) = {FALSE} /\ EditGuards(db, u, w) = {FALSE}
        /\ L = {"view"} => AccessGuards(db, u, w) = {TRUE} /\ EditGuards(db, u, w) = {FALSE}
        /\ L = {"edit"} => AccessGuards(db, u, w) = {TRUE} /\ EditGuards(db, u, w) = {TRUE}
        /\ TRUE \in EditGuards(db, u, w) => AccessGuards(db, u, w) = {TRUE}

\* Wedding 1 after a permission update and an accepted invitation: user 2
\* edits, user 3 views; user 1 has no row on wedding 2.
C4_Witness ==
  /\ LevelsOf(db, 2, {1}) = {"edit"}
  /\ LevelsOf(db, 3, {1}) = {"view"}
  /\ LevelsOf(db, 1, {2}) = {}

\* The handler without the check of user.is_verified.
Login_selectUser_NoVerifiedCheck(r) ==
  /\ Running(r, "login", "selectUser")
  /\ IF Broken(req[r].conn) THEN Refused(r)
     ELSE /\ LET result == {u \in Users(View(req[r].conn)) : u.email = req[r].a.email}
                 user == CHOOSE u \in result : TRUE
             IN  IF result = {} THEN Reply(r, 401)
                 ELSE IF ~req[r].a.isPasswordValid THEN Reply(r, 401)
                 ELSE Goto(r, "deleteTokens", [user_id |-> user.user_id, email |-> user.email])
          /\ Ran(r, db, conns)
          /\ UNCHANGED <<seq, budget, hist>>

(***************************************************************************)
(* Sessions (auth.js) and the public RSVP.                                 *)
(***************************************************************************)
\* POST /login: SELECT * FROM users WHERE email = $1, is_verified, bcrypt.compare
Login_selectUser(r) ==
  /\ Running(r, "login", "selectUser")
  /\ IF Broken(req[r].conn) THEN Refused(r)
     ELSE /\ LET result == {u \in Users(View(req[r].conn)) : u.email = req[r].a.email}
                 user == CHOOSE u \in result : TRUE
             IN  IF result = {} THEN Reply(r, 401)
                 ELSE IF ~user.is_verified THEN Reply(r, 403)
                 ELSE IF ~req[r].a.isPasswordValid THEN Reply(r, 401)
                 ELSE Goto(r, "deleteTokens", [user_id |-> user.user_id, email |-> user.email])
          /\ Ran(r, db, conns)
          /\ UNCHANGED <<seq, budget, hist>>

\* DELETE FROM refresh_tokens WHERE user_id = $1
Login_deleteTokens(r) ==
  /\ Running(r, "login", "deleteTokens")
  /\ Write(r, {x \in RefreshTokens(View(req[r].conn)) : x.user_id = req[r].l.user_id}, {},
           Goto(r, "insertToken", req[r].l), seq)

\* INSERT INTO refresh_tokens (user_id, token, expires_at), both routes.  When a
\* login issues its token, the other tokens stored for its user are noted as
\* revoked.
Sessions_insertToken(r) ==
  /\ req[r].op \in {"login", "verifyEmail"}
  /\ Running(r, req[r].op, "insertToken")
  /\ LET c == req[r].conn
         refreshToken == MaxUsers + seq.session + 1
         new == {RefreshTokenRow(req[r].l.user_id, refreshToken)}
     IN  IF Broken(c) THEN Refused(r)
         ELSE /\ Ran(r, WriteDb(c, {}, new), WriteConns(c, {}, new))
              /\ Goto(r, "selectInvitations", req[r].l)
              /\ seq' = [seq EXCEPT !.session = @ + 1]
              /\ hist' = IF req[r].op = "login"
                           THEN [hist EXCEPT !.revoked = @ \cup
                                   {x.token : x \in {y \in RefreshTokens(db) :
                                                       y.user_id = req[r].l.user_id}}]
                           ELSE hist
              /\ UNCHANGED budget

\* SELECT wi.* ... WHERE wi.email = $1 AND wi.status = 'pending'; res.json, both routes
Sessions_selectInvitations(r) ==
  /\ req[r].op \in {"login", "verifyEmail"}
  /\ Running(r, req[r].op, "selectInvitations")
  /\ Write(r, {}, {}, Reply(r, 200), seq)

\* POST /refresh-token: SELECT * FROM refresh_tokens WHERE token = $1; 403 if
\* no row; jwt.verify throws on an expired token, which the catch answers 403
RefreshToken_selectToken(r) ==
  /\ Running(r, "refreshToken", "selectToken")
  /\ LET tokenInDb == {x \in RefreshTokens(View(req[r].conn)) : x.token = req[r].a.token}
     IN  \E expired \in BOOLEAN :
           Write(r, {}, {},
                 IF tokenInDb = {} \/ expired
                   THEN Reply(r, 403)
                   ELSE Goto(r, "selectUser",
                             [userId |-> (CHOOSE x \in tokenInDb : TRUE).user_id]),
                 seq)

\* SELECT user_id, name FROM users WHERE user_id = $1; 403 if no row, else the
\* access token
RefreshToken_selectUser(r) ==
  /\ Running(r, "refreshToken", "selectUser")
  /\ LET userResult == {u \in Users(View(req[r].conn)) : u.user_id = req[r].l.userId}
     IN  Write(r, {}, {}, Reply(r, IF userResult = {} THEN 403 ELSE 200), seq)

\* POST /logout: DELETE FROM refresh_tokens WHERE token = $1
Logout_deleteToken(r) ==
  /\ Running(r, "logout", "deleteToken")
  /\ LET c == req[r].conn
         old == {x \in RefreshTokens(View(c)) : x.token = req[r].a.token}
     IN  IF Broken(c) THEN Refused(r)
         ELSE /\ ~Blocked(c, old)
              /\ Ran(r, WriteDb(c, old, {}), WriteConns(c, old, {}))
              /\ Reply(r, 200)
              /\ hist' = [hist EXCEPT !.revoked = @ \cup {req[r].a.token}]
              /\ UNCHANGED <<seq, budget>>

\* POST /register: SELECT * FROM users WHERE email = $1; 409 if the first row
\* is verified, DELETE next if it is not, INSERT next if there is none
Register_userExists(r) ==
  /\ Running(r, "register", "userExists")
  /\ LET userExists == {u \in Users(View(req[r].conn)) : u.email = req[r].a.email}
     IN  Write(r, {}, {},
               IF userExists = {} THEN Goto(r, "insertUser", req[r].l)
               ELSE IF ~(CHOOSE u \in userExists : TRUE).is_verified
                      THEN Goto(r, "deleteUser", req[r].l)
                      ELSE Reply(r, 409),
               seq)

\* DELETE FROM users WHERE email = $1
Register_deleteUser(r) ==
  /\ Running(r, "register", "deleteUser")
  /\ Write(r, {u \in Users(View(req[r].conn)) : u.email = req[r].a.email}, {},
           Goto(r, "insertUser", req[r].l), seq)

\* INSERT INTO users (name, email, password_hash, verification_token, ...): a
\* new user_id, is_verified false, a random six-digit code
Register_insertUser(r) ==
  /\ Running(r, "register", "insertUser")
  /\ \E verification_token \in {"4071", "5822"} :
       Write(r, {}, {[t |-> "users", user_id |-> MaxUsers + seq.user + 1,
                      email |-> req[r].a.email, is_verified |-> FALSE,
                      verification_token |-> verification_token]},
             Goto(r, "sendEmail", req[r].l), [seq EXCEPT !.user = @ + 1])

\* await sendVerificationEmail(...): the dispatch succeeds or throws.
Register_sendVerificationEmail(r) ==
  /\ req[r].op = "register" /\ req[r].pc = "sendEmail"
  /\ \E sent \in BOOLEAN : Reply(r, IF sent THEN 201 ELSE 500)
  /\ UNCHANGED <<db, conns, idle, seq, budget, hist>>

\* POST /verify-email: the user of the email, unverified, with the stored,
\* unexpired code
VerifyEmail_selectUser(r) ==
  /\ Running(r, "verifyEmail", "selectUser")
  /\ IF Broken(req[r].conn) THEN Refused(r)
     ELSE /\ LET result == {u \in Users(View(req[r].conn)) : u.email = req[r].a.email}
                 user == CHOOSE u \in result : TRUE
             IN  IF result = {} THEN Reply(r, 404)
                 ELSE IF user.is_verified THEN Reply(r, 400)
                 ELSE \E expired \in BOOLEAN :
                        IF user.verification_token # req[r].a.code \/ expired
                          THEN Reply(r, 400)
                          ELSE Goto(r, "update", [user_id |-> user.user_id,
                                                  email |-> user.email])
          /\ Ran(r, db, conns)
          /\ UNCHANGED <<seq, budget, hist>>

\* UPDATE users SET is_verified = true, verification_token = NULL WHERE user_id = $1
VerifyEmail_update(r) ==
  /\ Running(r, "verifyEmail", "update")
  /\ LET old == {u \in Users(View(req[r].conn)) : u.user_id = req[r].l.user_id}
     IN  Write(r, old, {[u EXCEPT !.is_verified = TRUE, !.verification_token = NULL] :
                          u \in old},
               Goto(r, "insertToken", req[r].l), seq)

\* The handler without the check of result.rows.length.
SubmitRsvp_update_NoCheck(r) ==
  /\ Running(r, "submitRsvp", "update")
  /\ LET a == req[r].a
         old == {g \in Guests(View(req[r].conn)) : g.rsvp_token = a.token}
     IN  Write(r, old, {[g EXCEPT !.rsvp_status = a.status, !.guest_message = a.message] :
                          g \in old},
               Reply(r, 200), seq)

\* POST /rsvp/:token: UPDATE guests SET rsvp_status = $1, guest_message = $2
\* WHERE rsvp_token = $3; 404 if no row
SubmitRsvp_update(r) ==
  /\ Running(r, "submitRsvp", "update")
  /\ LET a == req[r].a
         old == {g \in Guests(View(req[r].conn)) : g.rsvp_token = a.token}
     IN  Write(r, old, {[g EXCEPT !.rsvp_status = a.status, !.guest_message = a.message] :
                          g \in old},
               Reply(r, IF old = {} THEN 404 ELSE 200), seq)

\* GET /rsvp/:token: SELECT full_name FROM guests WHERE rsvp_token = $1; 404 if no row
GetRsvp_select(r) ==
  /\ Running(r, "getRsvp", "select")
  /\ LET found == {g \in Guests(View(req[r].conn)) : g.rsvp_token = req[r].a.token}
     IN  Write(r, {}, {}, Reply(r, IF found = {} THEN 404 ELSE 200), seq)

(***************************************************************************)
(* Where membership rows come from.                                        *)
(***************************************************************************)
\* User 1 has created wedding 1, which has a guest, and invited user 2 to view
\* it; user 3 has registered and not yet verified the email.
InitMembers ==
  /\ db = {UserRow(u) : u \in 1..2}
            \cup {[UserRow(3) EXCEPT !.is_verified = FALSE, !.verification_token = "4071"]}
            \cup {WeddingRow(1, 1, Slugify("Bia", "Ana")), OwnerRow(1, 1),
                  InvitationRow(1, 1, EmailOf(2), "view", 1),
                  GuestRow(1, 1, "Tia Eva", NULL, 1)}
  /\ conns = [c \in ConnIds |-> NoConn]
  /\ idle = <<>>
  /\ req = [r \in Req |-> IdleReq]
  /\ seq = [NoSeq EXCEPT !.token = 1, !.invitation = 1, !.wedding = 1, !.guest = 1]
  /\ budget = [started |-> 0, faults |-> 0]
  /\ hist = NoHist

NextMembers ==
  \E r \in Req :
    \/ \E u \in 1..2 : CreateWedding(r, u, "Caio", "Duda")
    \/ \E e \in {EmailOf(2), EmailOf(3)} : Invite(r, 1, 1, e, "edit")
    \/ \E u \in 1..2, m \in 2..3 :
         Request(r, "patchMember", u,
                 [weddingId |-> 1, memberUserId |-> m, permissionLevel |-> "edit"])
    \/ \E u \in 2..3, k \in TokenIds : AcceptInvitation(r, u, k)
    \/ \E u \in 2..3 :
         Request(r, "login", 0, [email |-> EmailOf(u), isPasswordValid |-> TRUE])
    \/ Request(r, "verifyEmail", 0, [email |-> EmailOf(3), code |-> "4071"])
    \/ Request(r, "submitRsvp", 0, [token |-> 1, status |-> "confirmed", message |-> "Sim"])
    \/ Acquire(r)
    \/ CreateWedding_probe(r)
    \/ CreateWedding_begin(r)
    \/ CreateWedding_insertWedding(r)
    \/ CreateWedding_insertMember(r)
    \/ CreateWedding_commit(r)
    \/ Rollback(r)
    \/ QueryError(r)
    \/ Team_canEditWedding(r)
    \/ Invite_existingMember(r)
    \/ Invite_upsert(r)
    \/ Invite_sendTeamInvitationEmail(r)
    \/ PatchMember_update(r)
    \/ AcceptInvitation_select(r)
    \/ AcceptInvitation_insert(r)
    \/ AcceptInvitation_update(r)
    \/ Login_selectUser(r)
    \/ Login_deleteTokens(r)
    \/ Sessions_insertToken(r)
    \/ Sessions_selectInvitations(r)
    \/ VerifyEmail_selectUser(r)
    \/ VerifyEmail_update(r)
    \/ SubmitRsvp_update(r)

SpecMembers == InitMembers /\ [][NextMembers]_vars

C11_LevelsValid ==
  \A wu \in Members(db) : wu.permission_level \in {"view", "edit"}

\* C12: no two stored invitation rows have the same (wedding, email) pair; the
\* upsert of an invite for a pair that has a row leaves the pair with that one
\* row, now carrying the new token, the given permission level and
\* relationship and status pending, and the token it carried before matches no
\* pending invitation; and an acceptInvitation whose SELECT runs with an
\* overwritten token answers 404 and changes nothing.
C12_OneInvitation ==
  /\ [](\A i, j \in Invitations(db) :
          (i.wedding_id = j.wedding_id /\ i.email = j.email) => i = j)
  /\ [][\A r \in Req :
          LET a == req[r].a
              \* the invitation rows of the pair (weddingId, email), before and after
              old == {i \in Invitations(db) :
                        i.wedding_id = a.weddingId /\ i.email = a.email}
              new == {i \in Invitations(db') :
                        i.wedding_id = a.weddingId /\ i.email = a.email}
          IN  (Running(r, "invite", "upsert") /\ req'[r] # req[r] /\ old # {})
                => /\ \A i \in old : PendingInvitation(db', i.invitation_token) = {}
                   /\ \E n \in Invitations(db') :
                        /\ new = {n}
                        /\ n.invitation_token = req[r].l.token
                        /\ n.permission_level = a.permissionLevel
                        /\ n.relationship = a.relationship
                        /\ n.status = "pending"]_vars
  /\ [][\A r \in Req :
          (Running(r, "acceptInvitation", "select") /\ req'[r] # req[r]
             /\ req[r].a.token \in hist.superseded)
            => (req'[r].pc = "done" /\ req'[r].resp = 404 /\ db' = db)]_vars

\* An invite has overwritten the invitation of user 2 to wedding 1, and an
\* acceptInvitation holding the overwritten token 1 is about to be answered.
C12_Witness ==
  /\ hist.superseded = {1}
  /\ \E n \in Invitations(db) :
       n.wedding_id = 1 /\ n.email = EmailOf(2) /\ n.invitation_token = 2
  /\ \E r \in Req : Running(r, "acceptInvitation", "select") /\ req[r].a.token = 1

\* C13: when the existence check of an invite runs while a member of the
\* wedding has the invited email, the request ends with 409 at that step: the
\* invitation rows and the token counter are unchanged and the request never
\* reaches the upsert or the email dispatch.
C13_MemberConflict ==
  [][\A r \in Req :
       (/\ Running(r, "invite", "existingMember")
        /\ req'[r] # req[r]
        /\ \E wu \in Members(db) : \E u \in Users(db) :
             /\ wu.wedding_id = req[r].a.weddingId
             /\ wu.user_id = u.user_id
             /\ u.email = req[r].a.email)
         => /\ req'[r].pc = "done" /\ req'[r].resp = 409
            /\ db' = db
            /\ seq' = seq]_vars

\* User 2 has joined wedding 1 and an invite has been answered 409.
C13_Witness ==
  /\ \E wu \in Members(db) : wu.user_id = 2 /\ wu.wedding_id = 1
  /\ \E r \in Req : req[r].op = "invite" /\ req[r].pc = "done" /\ req[r].resp = 409

\* C14: when the dispatch of the invitation email fails, that step answers the
\* invite with 500 and changes no stored row; and an acceptInvitation whose
\* SELECT runs with the token of an undelivered invitation that is still
\* pending finds it and goes on to create the membership.
C14_UndeliveredKept ==
  /\ [][\A r \in Req :
          (/\ req[r].op = "invite" /\ req[r].pc = "sendEmail"
           /\ req'[r] # req[r]
           /\ hist'.undelivered # hist.undelivered)
            => /\ req'[r].pc = "done" /\ req'[r].resp = 500
               /\ db' = db]_vars
  /\ [][\A r \in Req :
          (/\ Running(r, "acceptInvitation", "select")
           /\ req'[r] # req[r]
           /\ req[r].a.token \in hist.undelivered
           /\ \E i \in Invitations(db) :
                i.invitation_token = req[r].a.token /\ i.status = "pending")
            => /\ req'[r].pc = "insert"
               /\ req'[r].l.invitation.invitation_token = req[r].a.token]_vars

\* The email of the invitation with token 2 was not dispatched, the invite was
\* answered 500, the row is stored as pending and an acceptInvitation with
\* token 2 is about to read it.
C14_Witness ==
  /\ 2 \in hist.undelivered
  /\ \E r \in Req : req[r].op = "invite" /\ req[r].pc = "done" /\ req[r].resp = 500
  /\ \E i \in Invitations(db) : i.invitation_token = 2 /\ i.status = "pending"
  /\ \E r \in Req : Running(r, "acceptInvitation", "select") /\ req[r].a.token = 2

\* C15: the permission check of revokeInvitation lets the request through to
\* its DELETE exactly when the caller holds an edit membership on the wedding
\* of the named invitation; otherwise (a view membership, no membership, an
\* edit membership on another wedding only, or no such invitation) that step
\* answers 403 and changes no row.  The DELETE removes the rows of the named
\* invitation, nothing else, and answers 204.
C15_RevokeNeedsEdit ==
  [][\A r \in Req :
       LET id == req[r].a.invitationId
           \* the weddings of the named invitation: none when it is not stored
           W == {wi.wedding_id : wi \in {x \in Invitations(db) : x.invitation_id = id}}
       IN  /\ (Running(r, "revokeInvitation", "permission") /\ req'[r] # req[r])
                => /\ db' = db
                   /\ IF "edit" \in LevelsOf(db, req[r].user, W)
                        THEN req'[r].pc = "delete"
                        ELSE req'[r].pc = "done" /\ req'[r].resp = 403
           /\ (Running(r, "revokeInvitation", "delete") /\ req'[r] # req[r])
                => /\ db' = db \ {wi \in Invitations(db) : wi.invitation_id = id}
                   /\ req'[r].resp = 204]_vars

\* A viewer of wedding 1 has been refused the revocation of its invitation,
\* and an editor has revoked it.
C15_Witness ==
  /\ <<"revokeInvitation", {"view"}>> \in hist.forbidden
  /\ \E r \in Req : req[r].op = "revokeInvitation" /\ req[r].pc = "done" /\ req[r].resp = 204
  /\ Invitations(db) = {}

(***************************************************************************)
(* Guest and budget entries: the values the routes store.                  *)
(***************************************************************************)
\* GET /stats/wedding/:weddingId: the four counts of the statistics query.
RsvpStats(V, weddingId) ==
  LET G == {g \in Guests(V) : g.wedding_id = weddingId}
  IN  [total_guests |-> Cardinality(G),
       confirmed |-> Cardinality({g \in G : g.rsvp_status = "confirmed"}),
       declined |-> Cardinality({g \in G : g.rsvp_status = "declined"}),
       pending |-> Cardinality({g \in G : g.rsvp_status \in {"pending", NULL}})]

\* User 1 has created wedding 1, which has a budget item and one or two
\* guests; user 2 has joined it as a viewer.
InitEntries ==
  /\ \E G \in {{}, {GuestRow(2, 1, "Tio Leo", "pending", 1)}} :
       /\ db = {UserRow(u) : u \in UserIds}
                 \cup {WeddingRow(1, 1, "bia-e-ana"), OwnerRow(1, 1), ViewerRow(2, 1),
                       GuestRow(1, 1, "Tia Eva", NULL, 1),
                       BudgetRow(1, 1, BudgetBody("Buffet", 100, 0, "Analisando"))}
                 \cup G
       /\ seq = [NoSeq EXCEPT !.wedding = 1, !.guest = 1 + Cardinality(G), !.item = 1]
  /\ conns = [c \in ConnIds |-> NoConn]
  /\ idle = <<>>
  /\ req = [r \in Req |-> IdleReq]
  /\ budget = [started |-> 0, faults |-> 0]
  /\ hist = NoHist

\* The requests of SpecEntries: an editor or a viewer of wedding 1, or an
\* anonymous holder of an RSVP token; status values inside and outside the
\* documented ones; tokens 1..MaxItems + 1, the last of which no guest holds.
NextEntries ==
  \E r \in Req :
    \/ \E u \in 1..2 :
         \/ Request(r, "addGuest", u, [weddingId |-> 1, full_name |-> "Tio Leo"])
         \/ \E i \in ItemIds, s \in {"declined", "maybe"} :
              Request(r, "updateGuest", u,
                      [guestId |-> i, full_name |-> "Tia Eva", rsvp_status |-> s])
         \/ \E d \in {NULL, "Talvez"} :
              Request(r, "addBudgetItem", u,
                      [weddingId |-> 1, body |-> BudgetBody("Foto", 100, 0, d)])
         \/ \E d \in {"Contratado", "Pago"} :
              \/ Request(r, "patchItemStatus", u, [itemId |-> 1, decision_status |-> d])
              \/ Request(r, "updateBudgetItem", u,
                         [itemId |-> 1, body |-> BudgetBody("Foto", 100, 100, d)])
    \/ \E k \in 1..(MaxItems + 1) :
         \/ \E s \in {"confirmed", "talvez"} :
              Request(r, "submitRsvp", 0, [token |-> k, status |-> s, message |-> "Sim"])
         \/ Request(r, "getRsvp", 0, [token |-> k])
    \/ Acquire(r)
    \/ AddGuest_canEditWedding(r)
    \/ AddGuest_insert(r)
    \/ UpdateGuest_permission(r)
    \/ UpdateGuest_update(r)
    \/ SubmitRsvp_update(r)
    \/ GetRsvp_select(r)
    \/ Budget_canEditByWeddingId(r)
    \/ Budget_canEditByItemId(r)
    \/ AddBudgetItem_insert(r)
    \/ PatchItemStatus_update(r)
    \/ UpdateBudgetItem_update(r)

SpecEntries == InitEntries /\ [][NextEntries]_vars

\* C16: no two guests hold the same RSVP token.  A submitRsvp whose token a
\* guest holds answers 200 and rewrites rsvp_status and guest_message of that
\* guest only, which keeps its token, so the same token still finds it; a
\* getRsvp with a held token answers 200.  With a token no guest holds both
\* answer 404, and neither a getRsvp nor such a submitRsvp changes a row.
C16_RsvpByToken ==
  /\ [](\A g, h \in Guests(db) : g.rsvp_token = h.rsvp_token => g = h)
  /\ [][\A r \in Req :
          LET a == req[r].a
              held == {g \in Guests(db) : g.rsvp_token = a.token}
          IN  /\ (Running(r, "submitRsvp", "update") /\ req'[r] # req[r])
                   => IF held = {}
                        THEN req'[r].resp = 404 /\ db' = db
                        ELSE /\ req'[r].resp = 200
                             /\ Guests(db') \ Guests(db) \subseteq
                                  {[g EXCEPT !.rsvp_status = a.status,
                                             !.guest_message = a.message] : g \in held}
                             /\ db \ db' \subseteq held
                             /\ \E g \in Guests(db') :
                                  /\ g.rsvp_token = a.token
                                  /\ g.rsvp_status = a.status
                                  /\ g.guest_message = a.message
              /\ (Running(r, "getRsvp", "select") /\ req'[r] # req[r])
                   => /\ req'[r].resp = IF held = {} THEN 404 ELSE 200
                      /\ db' = db]_vars

\* Guest 1 has answered through token 1, guest 2 is as created, and a getRsvp
\* with token 1 is about to read.
C16_Witness ==
  /\ \E g \in Guests(db) :
       g.guest_id = 1 /\ g.rsvp_status = "confirmed" /\ g.guest_message = "Sim"
  /\ GuestRow(2, 1, "Tio Leo", "pending", 1) \in db
  /\ \E r \in Req : Running(r, "getRsvp", "select") /\ req[r].a.token = 1

\* C17: every stored guest has rsvp_status pending, confirmed, declined or
\* unset, and the counts of the statistics query add up: total_guests =
\* confirmed + declined + pending.
C17_RsvpStatusValid ==
  /\ \A g \in Guests(db) : g.rsvp_status \in {"pending", "confirmed", "declined", NULL}
  /\ \A w \in WeddingIds :
       LET s == RsvpStats(db, w)
       IN  s.total_guests = s.confirmed + s.declined + s.pending

\* C19: every stored budget item has decision_status Analisando, Contratado
\* or Recusado.
C19_DecisionStatusValid ==
  \A b \in BudgetItems(db) : b.decision_status \in {"Analisando", "Contratado", "Recusado"}

(***************************************************************************)
(* The derived payment status of budget items.                             *)
(***************************************************************************)
\* addComputedPaymentStatus, for one item.  A column without a value is stored
\* as 0 here, which is what item.final_value || 0 and item.paid_value || 0
\* read it as.
AddComputedPaymentStatus(item) ==
  LET finalValue == item.final_value
      paidValue == item.paid_value
      payment_status ==
        IF item.decision_status = "Contratado"
          THEN IF paidValue >= finalValue /\ finalValue > 0 THEN "Pago"
               ELSE IF paidValue > 0 THEN "Pago Parcialmente"
               ELSE "Pendente"
          ELSE "N/A"
  IN  [f \in DOMAIN item \cup {"payment_status"} |->
         IF f = "payment_status" THEN payment_status ELSE item[f]]

ListBudgetItems_canAccessWedding(r) ==
  /\ Running(r, "listBudgetItems", "canAccessWedding")
  /\ Guard(r, BudgetCanAccessWedding(View(req[r].conn), req[r].user, req[r].a.weddingId),
           Goto(r, "select", req[r].l))

\* SELECT * FROM budget_items WHERE wedding_id = $1, then
\* res.json(addComputedPaymentStatus(result.rows)): the slot keeps the body.
ListBudgetItems_select(r) ==
  /\ Running(r, "listBudgetItems", "select")
  /\ LET found == {b \in BudgetItems(View(req[r].conn)) : b.wedding_id = req[r].a.weddingId}
         rows == {AddComputedPaymentStatus(b) : b \in found}
     IN  Write(r, {}, {},
               req' = [req EXCEPT ![r] = [IdleReq EXCEPT !.op = req[r].op, !.pc = "done",
                                                         !.resp = 200,
                                                         !.l = [rows |-> rows]]],
               seq)

\* Wedding 1 of user 1, with viewer 2, has one budget item with any of the
\* three decision statuses, a final value in 0..MaxValue and a paid value in
\* 0..MaxValue + 1.
InitPayment ==
  /\ \E d \in {"Analisando", "Contratado", "Recusado"},
        f \in 0..MaxValue, p \in 0..(MaxValue + 1) :
       db = {UserRow(u) : u \in UserIds}
              \cup {WeddingRow(1, 1, "bia-e-ana"), OwnerRow(1, 1), ViewerRow(2, 1),
                    BudgetRow(1, 1, BudgetBody("Buffet", f, p, d))}
  /\ seq = [NoSeq EXCEPT !.wedding = 1, !.item = 1]
  /\ conns = [c \in ConnIds |-> NoConn]
  /\ idle = <<>>
  /\ req = [r \in Req |-> IdleReq]
  /\ budget = [started |-> 0, faults |-> 0]
  /\ hist = NoHist

NextPayment ==
  \E r \in Req :
    \/ \E u \in UserIds : Request(r, "listBudgetItems", u, [weddingId |-> 1])
    \/ Acquire(r)
    \/ ListBudgetItems_canAccessWedding(r)
    \/ ListBudgetItems_select(r)

SpecPayment == InitPayment /\ [][NextPayment]_vars

\* C18: every item of a budget listing, with decision_status d, final_value f
\* and paid_value p, carries payment_status Pago exactly when d = Contratado,
\* f > 0 and p >= f; Pago Parcialmente exactly when d = Contratado and
\* 0 < p < f; Pendente exactly when d = Contratado and p = 0; N/A exactly when
\* d is not Contratado.
C18_PaymentStatus ==
  \A r \in Req :
    (req[r].op = "listBudgetItems" /\ req[r].pc = "done" /\ req[r].resp = 200)
      => \A row \in req[r].l.rows :
           LET d == row.decision_status
               f == row.final_value
               p == row.paid_value
           IN  /\ row.payment_status = "Pago" <=> (d = "Contratado" /\ f > 0 /\ p >= f)
               /\ row.payment_status = "Pago Parcialmente"
                    <=> (d = "Contratado" /\ 0 < p /\ p < f)
               /\ row.payment_status = "Pendente" <=> (d = "Contratado" /\ p = 0)
               /\ row.payment_status = "N/A" <=> d # "Contratado"

(***************************************************************************)
(* Sessions.                                                               *)
(***************************************************************************)
\* C20: at most one refresh token row is stored per user.
C20_SingleSession ==
  \A u \in UserIds : Cardinality({x \in RefreshTokens(db) : x.user_id = u}) <= 1

\* Users 1 and 2 are verified and user 2 holds a session (refresh token
\* MaxUsers + 1); user 3 has registered and not yet verified the email.
InitSessions ==
  /\ db = {UserRow(u) : u \in 1..2}
            \cup {[UserRow(3) EXCEPT !.is_verified = FALSE, !.verification_token = "4071"],
                  RefreshTokenRow(2, MaxUsers + 1)}
  /\ conns = [c \in ConnIds |-> NoConn]
  /\ idle = <<>>
  /\ req = [r \in Req |-> IdleReq]
  /\ seq = [NoSeq EXCEPT !.session = 1]
  /\ budget = [started |-> 0, faults |-> 0]
  /\ hist = NoHist

\* The requests of SpecSessions: logins with the right password, verify-email
\* with the stored or a wrong code, register for the email of a verified and of
\* an unverified user, and refresh-token and logout with any
\* refresh token issued so far.
NextSessions ==
  \E r \in Req :
    \/ \E u \in 2..3 :
         Request(r, "login", 0, [email |-> EmailOf(u), isPasswordValid |-> TRUE])
    \/ \E code \in {"4071", "0000"} :
         Request(r, "verifyEmail", 0, [email |-> EmailOf(3), code |-> code])
    \/ \E u \in 2..3 : Request(r, "register", 0, [email |-> EmailOf(u)])
    \/ \E t \in (MaxUsers + 1)..(MaxUsers + seq.session) :
         \/ Request(r, "refreshToken", 0, [token |-> t])
         \/ Request(r, "logout", 0, [token |-> t])
    \/ Acquire(r)
    \/ Login_selectUser(r)
    \/ Login_deleteTokens(r)
    \/ Sessions_insertToken(r)
    \/ Sessions_selectInvitations(r)
    \/ VerifyEmail_selectUser(r)
    \/ VerifyEmail_update(r)
    \/ RefreshToken_selectToken(r)
    \/ RefreshToken_selectUser(r)
    \/ Logout_deleteToken(r)
    \/ Register_userExists(r)
    \/ Register_deleteUser(r)
    \/ Register_insertUser(r)
    \/ Register_sendVerificationEmail(r)

SpecSessions == InitSessions /\ [][NextSessions]_vars

\* C21: a refresh token that was logged out, or that was stored for a user when
\* a login issued that user a new token, is no longer stored, and a refresh-token
\* request whose SELECT runs with such a token is answered 403 by that step.
C21_RevokedRejected ==
  /\ [](\A x \in RefreshTokens(db) : x.token \notin hist.revoked)
  /\ [][\A r \in Req :
          (/\ Running(r, "refreshToken", "selectToken")
           /\ req'[r] # req[r]
           /\ req[r].a.token \in hist.revoked)
            => (req'[r].pc = "done" /\ req'[r].resp = 403)]_vars

\* C22: a login whose SELECT finds the user unverified answers 403; a
\* verify-email whose SELECT finds the user verified answers 400 and writes
\* nothing; a refresh token is inserted for no user whose row is unverified at
\* that moment; and is_verified of a user row changes only from false to true,
\* in the UPDATE of a verify-email whose code is the one stored in that row.
C22_VerifiedOnce ==
  [][/\ \A r \in Req :
          LET found == {u \in Users(db) : u.email = req[r].a.email}
          IN  /\ (/\ Running(r, "login", "selectUser") /\ req'[r] # req[r]
                  /\ \E u \in found : ~u.is_verified)
                   => (req'[r].pc = "done" /\ req'[r].resp = 403)
              /\ (/\ Running(r, "verifyEmail", "selectUser") /\ req'[r] # req[r]
                  /\ \E u \in found : u.is_verified)
                   => (req'[r].pc = "done" /\ req'[r].resp = 400 /\ db' = db)
     /\ \A x \in RefreshTokens(db') \ RefreshTokens(db) :
          \A u \in Users(db) : u.user_id = x.user_id => u.is_verified
     /\ \A u \in Users(db) : \A v \in Users(db') :
          (u.user_id = v.user_id /\ u.is_verified # v.is_verified)
            => /\ ~u.is_verified /\ v.is_verified
               /\ \E r \in Req :
                    /\ Running(r, "verifyEmail", "update") /\ req'[r] # req[r]
                    /\ req[r].l.user_id = u.user_id
                    /\ req[r].a.code = u.verification_token]_vars

\* A login for user 3 was answered 403 while the account was unverified; user 3
\* has since verified the email and holds a refresh token.
C22_Witness ==
  /\ \E r \in Req : req[r].op = "login" /\ req[r].pc = "done" /\ req[r].resp = 403
  /\ \E u \in Users(db) : u.user_id = 3 /\ u.is_verified
  /\ \E x \in RefreshTokens(db) : x.user_id = 3

(***************************************************************************)
(* What the responses disclose.                                            *)
(***************************************************************************)
\* C23: every request-password-reset is answered as the one for an email no
\* verified user has, which is the 200 acknowledgment sent without any
\* dispatch; also when the dispatch of the email fails.
C23_SameAcknowledgment ==
  \A r \in Req :
    (req[r].op = "requestPasswordReset" /\ req[r].pc = "done") => req[r].resp = 200


\* C24: a slug uniqueness violation raised by the store is answered 409, never
\* the generic 500, both when createWedding loses the allocation race (the
\* answer follows its ROLLBACK) and when updateWedding is given a slug another
\* wedding holds, and the failed request leaves the stored weddings unchanged.
C24_SlugConflict ==
  [][\A r \in Req :
       /\ (/\ Running(r, "createWedding", "rollback")
           /\ req[r].l.error = "23505"
           /\ req'[r].pc = "done")
            => (req'[r].resp = 409 /\ Weddings(db') = Weddings(db))
       /\ (/\ Running(r, "updateWedding", "update")
           /\ req'[r].pc = "done"
           /\ SlugTaken(View(req[r].conn), req[r].a.website_slug, req[r].a.weddingId)
           /\ \E w \in Weddings(View(req[r].conn)) : w.wedding_id = req[r].a.weddingId)
            => (req'[r].resp = 409 /\ Weddings(db') = Weddings(db))]_vars

\* C25: generateUniqueSlug probes base, base-1, base-2, ... in that order; it
\* moves to the next candidate exactly when the probed one is held by a stored
\* wedding and returns the probed candidate exactly when none holds it, and
\* every probing loop comes to an end.
C25_FirstFree ==
  /\ [](\A r \in Req :
          (req[r].op = "createWedding" /\ req[r].pc = "probe") =>
            req[r].l.slug = IF req[r].l.suffix = 1 THEN req[r].a.baseSlug
                            ELSE Suffixed(req[r].a.baseSlug, req[r].l.suffix - 1))
  /\ [][\A r \in Req :
          (/\ Running(r, "createWedding", "probe")
           /\ req'[r] # req[r]
           /\ ~Broken(req[r].conn)) =>
            IF \E w \in Weddings(View(req[r].conn)) : w.website_slug = req[r].l.slug
              THEN /\ req'[r].pc = "probe"
                   /\ req'[r].l.slug = Suffixed(req[r].a.baseSlug, req[r].l.suffix)
                   /\ req'[r].l.suffix = req[r].l.suffix + 1
              ELSE /\ req'[r].pc = "begin"
                   /\ req'[r].l.slug = req[r].l.slug]_vars
  /\ \A r \in Req :
       (req[r].op = "createWedding" /\ req[r].pc = "probe")
         ~> ~(req[r].op = "createWedding" /\ req[r].pc = "probe")

\* An allocation has found the base and its first suffix taken and returned the
\* second suffix.
C25_Witness ==
  \E r \in Req :
    /\ req[r].op = "createWedding" /\ req[r].pc = "begin"
    /\ req[r].l.slug = Suffixed(req[r].a.baseSlug, 2)
    /\ \A s \in {req[r].a.baseSlug, Suffixed(req[r].a.baseSlug, 1)} :
         \E w \in Weddings(db) : w.website_slug = s

(***************************************************************************)
(* Invitations and memberships under failures (SpecMembers, SpecTeam).     *)
(***************************************************************************)
\* C26: once an acceptInvitation request has created a membership row from an
\* invitation and is no longer on its way to the status update, the invitation
\* is not pending, also when the storage failed that update.
C26_ConsumedWithMember ==
  \A k \in TokenIds :
    (/\ hist.joined[k] # {}
     /\ \A r \in Req : ~(/\ req[r].op = "acceptInvitation"
                         /\ req[r].pc = "update"
                         /\ req[r].a.token = k))
      => PendingInvitation(db, k) = {}

\* C27: a statement runs on a pooled client with an open transaction exactly
\* when its request is between its own BEGIN and its COMMIT: the statements of
\* createWedding and deleteAccount never run outside a transaction, and no
\* other request's statement runs inside one.
C27_OwnTransaction ==
  \A r \in Req :
    (req[r].conn # 0 /\ req[r].pc \notin {"begin", "rollback"}) =>
      (conns[req[r].conn].tx
         <=> (/\ req[r].op \in {"createWedding", "deleteAccount"}
              /\ req[r].pc \in {"insertWedding", "insertMember", "deleteInvitations",
                                "deleteTokens", "deleteMembers", "deleteUser", "commit"}))

(***************************************************************************)
(* Registration beside verification (SpecSessions).                        *)
(***************************************************************************)
\* C28: register answers 409 and changes nothing when its lookup finds a
\* verified account for the email, and no step of a register request removes
\* or replaces the row of a verified account, whatever verify-email requests
\* for the same email run beside it.
C28_VerifiedKept ==
  [][\A r \in Req :
       /\ (/\ Running(r, "register", "userExists")
           /\ req'[r] # req[r]
           /\ \E u \in Users(View(req[r].conn)) :
                u.email = req[r].a.email /\ u.is_verified)
            => (req'[r].pc = "done" /\ req'[r].resp = 409 /\ db' = db)
       /\ (req[r].op = "register" /\ req'[r] # req[r])
            => \A u \in Users(db) : u.is_verified => u \in db']_vars

\* C29: acceptInvitation refuses a caller whose account email differs from the
\* email of the invitation the token belongs to, and the membership row it
\* inserts belongs to the user whose account email is the invitation's email.
C29_InvitedOnly ==
  [][\A r \in Req :
       /\ (/\ Running(r, "acceptInvitation", "select")
           /\ req'[r] # req[r]
           /\ \E i \in PendingInvitation(View(req[r].conn), req[r].a.token) :
                \E u \in Users(db) : u.user_id = req[r].user /\ u.email # i.email)
            => (req'[r].pc = "done" /\ req'[r].resp >= 400)
       /\ (/\ Running(r, "acceptInvitation", "insert")
           /\ req'[r] # req[r]
           /\ Members(db') # Members(db))
            => \E u \in Users(db) :
                 u.user_id = req[r].user /\ u.email = req[r].l.invitation.email]_vars

\* C30: every stored wedding has at least one member row with permission_level
\* 'edit', whatever invite, acceptInvitation and updateMemberPermission
\* requests have run.
C30_EditMemberRemains ==
  \A w \in Weddings(db) :
    \E wu \in Members(db) : wu.wedding_id = w.wedding_id /\ wu.permission_level = "edit"
====
